---- MODULE Spec2Model ----
(***************************************************************************)
(* Model of pynicotine/daemon/state.py (class DaemonState): the shared     *)
(* registry guarded by one lock, the bridge that hands work to the owner   *)
(* ("main") thread through events.invoke_main_thread, and the search       *)
(* coordinator built on both.                                              *)
(*                                                                         *)
(* Every `with self._lock:` block of the source is one atomic step of the  *)
(* thread that runs it.  A caller thread is suspended only in              *)
(* Event.wait(timeout=...), which returns when the event is set or when    *)
(* the timeout expires; the timeout is modelled as "may return at any      *)
(* time".  A handler run by the owner thread is one action.                *)
(***************************************************************************)
EXTENDS Integers, Sequences, FiniteSets, TLC

\* ------------------------------------------------------------------ bounds

\* Cap on the number of bridged requests ever allocated (_pending_request_id).
MaxRequests == 2

\* Cap on the callbacks waiting in the owner thread's queue, those that calls
\* already under way will still add included.
MaxQueue == 3

\* DaemonState.max_search_results (500 in state.py:36), scaled down.
max_search_results == 2

\* --------------------------------------------------------------- constants

Callers == {"c1", "c2"}

\* Python's None for a token / a request id.
None == 0

\* ------------------------------------------------------- strings as sequences

\* A term is a sequence of one-character strings.
Lower(ch) ==
    LET upper == << "A", "B", "C", "D", "E", "F", "G", "H", "I", "J", "K",
                    "L", "M", "N", "O", "P", "Q", "R", "S", "T", "U", "V",
                    "W", "X", "Y", "Z" >>
        lower == << "a", "b", "c", "d", "e", "f", "g", "h", "i", "j", "k",
                    "l", "m", "n", "o", "p", "q", "r", "s", "t", "u", "v",
                    "w", "x", "y", "z" >>
    IN  IF \E i \in 1..26 : upper[i] = ch
           THEN lower[CHOOSE i \in 1..26 : upper[i] = ch]
           ELSE ch

\* str.casefold
casefold(s) == [i \in 1..Len(s) |-> Lower(s[i])]

IsSpace(ch) == ch = " "

RECURSIVE lstrip(_)
lstrip(s) == IF s # <<>> /\ IsSpace(Head(s)) THEN lstrip(Tail(s)) ELSE s

RECURSIVE rstrip(_)
rstrip(s) ==
    IF s # <<>> /\ IsSpace(s[Len(s)]) THEN rstrip(SubSeq(s, 1, Len(s) - 1)) ELSE s

\* A term taken as it was typed.
strip_nothing(s) == s

\* str.strip
strip(s) == rstrip(lstrip(s))

\* The raw terms callers submit: one needs trimming and case folding.
Terms == { <<" ", "A">>, <<"b">> }

\* ------------------------------------------------------------ dict helpers

\* d[k] = v
Put(d, k, v) == [x \in (DOMAIN d) \cup {k} |-> IF x = k THEN v ELSE d[x]]

\* d.pop(k, None)
Pop(d, k) == [x \in (DOMAIN d) \ {k} |-> d[x]]

\* d.get(k)  (None when absent), for dicts whose values are tokens
Get(d, k) == IF k \in DOMAIN d THEN d[k] ELSE None

EmptyDict == [x \in {} |-> None]

\* ------------------------------------------------------------------- state

VARIABLES
    searches,             \* DaemonState.searches: token -> [term, results]
    search_results,       \* DaemonState.search_results: token -> list of entries
    search_terms,         \* DaemonState.search_terms: casefolded term -> token
    pending_requests,     \* DaemonState.pending_requests: id -> pending dict
    pending_request_id,   \* DaemonState._pending_request_id
    engine_token,         \* core.search.token
    main_queue,           \* callbacks handed to events.invoke_main_thread, FIFO
    caller,               \* per caller thread: position and locals
    produced,             \* history: request id -> what the owner computed for it
    removed,              \* history: the tokens remove_search has removed
    returned,             \* history: the <<key, token>> pairs ensure_search returned
    user_browse_events,   \* DaemonState._user_browse_events: key -> event is set
    user_browse_status,   \* DaemonState._user_browse_status: key -> status
    browse_users,         \* core.userbrowse.users: key -> state of its listing
    browse_requests,      \* history: key -> browse calls made with new_request=True
    transfers,            \* core.downloads.transfers, in iteration order
    download_path_overrides, \* DaemonState.download_path_overrides
    files,                \* the local paths that exist on disk
    lock,                 \* DaemonState._lock: the thread holding it, or Free
    thread,               \* per thread, lock taken step by step: position, locals
    chat_lines,           \* DaemonState.chat_lines, newest first
    share,                \* DaemonState.share_files, share_folders, share_status
    engine,               \* core.users, core.shares: what snapshot() reads of them
    reader,               \* the thread inside snapshot() or get_chat_snapshot()
    resolved              \* history: the last downloads snapshot, before and after

vars == << searches, search_results, search_terms, pending_requests,
           pending_request_id, engine_token, main_queue, caller, produced,
           removed, returned, user_browse_events, user_browse_status, browse_users,
           transfers, download_path_overrides, files, browse_requests, lock,
           thread, chat_lines, share, engine, reader, resolved >>

browse == << user_browse_events, user_browse_status, browse_users,
             browse_requests >>

\* The state of the lock taken step by step, and of its history.
locking == << lock, thread >>

\* The fields snapshot() reads, and its reader.
shown == << chat_lines, share, engine, reader >>

others == << locking, shown, resolved >>

downloads == << transfers, download_path_overrides, files >>

registry == << searches, search_results, search_terms >>

\* A caller thread between two calls: op, key and ret remember the last call
\* made, the key it worked on and what it returned; the locals are dropped.
Idle == [pc |-> "idle", op |-> "none", term |-> <<>>, key |-> <<>>,
         request_id |-> None, token |-> None, ret |-> None,
         username |-> "", local |-> FALSE]

\* The transfers the engine holds: one finished download whose completed file
\* is on disk, one still queued.
InitialTransfers ==
    << [username |-> "alice", virtual_path |-> "music\\a.mp3", size |-> 10,
        status |-> "Finished", current_byte_offset |-> 10, folder_path |-> "dl",
        complete_path |-> "dl/a.mp3"],
       [username |-> "bob", virtual_path |-> "b.flac", size |-> 7,
        status |-> "Queued", current_byte_offset |-> 0, folder_path |-> "",
        complete_path |-> "dl/b.flac"] >>

InitialFiles == {"dl/a.mp3"}

\* The lock when no thread holds it.
Free == "free"

\* The owner thread, and all the threads.
Main == "main"

Threads == Callers \cup {Main}

\* A thread that is in no operation.
Resting == [pc |-> "rest", op |-> "none", todo |-> <<>>, local_path |-> "",
            request_id |-> None, ret |-> <<>>]

\* Python's None for a count of shares, which can be 0.
NoCount == -1

\* DaemonState.__init__, state.py:29-31: no share counts yet.
InitialShare == [share_files |-> NoCount, share_folders |-> NoCount,
                 share_status |-> "scanning"]

\* The engine at start: not logged in, no share databases loaded
\* (core.users.login_status, core.shares.share_dbs).
InitialEngine == [login_status |-> "Offline", share_dbs |-> <<>>]

\* No thread is inside snapshot().
NoReader == [pc |-> "rest", copy |-> <<>>, ret |-> <<>>]

\* The call of caller record me returns ret.
Done(me, ret) == [Idle EXCEPT !.op = me.op, !.key = me.key, !.ret = ret]

Init ==
    /\ searches = EmptyDict
    /\ search_results = EmptyDict
    /\ search_terms = EmptyDict
    /\ pending_requests = EmptyDict
    /\ pending_request_id = 0
    /\ engine_token = 0
    /\ main_queue = <<>>
    /\ caller = [c \in Callers |-> Idle]
    /\ produced = EmptyDict
    /\ removed = {}
    /\ returned = {}
    /\ user_browse_events = EmptyDict
    /\ user_browse_status = EmptyDict
    /\ browse_users = EmptyDict
    /\ browse_requests = EmptyDict
    /\ transfers = InitialTransfers
    /\ download_path_overrides = EmptyDict
    /\ files = InitialFiles
    /\ lock = Free
    /\ thread = [t \in Threads |-> Resting]
    /\ chat_lines = <<>>
    /\ share = InitialShare
    /\ engine = InitialEngine
    /\ reader = NoReader
    /\ resolved = <<>>

\* ------------------------------------------------------ the search registry

\* The three search dicts, passed as one record to the operators below.
Registry == [searches |-> searches, search_results |-> search_results,
             search_terms |-> search_terms]

\* DaemonState.add_search, state.py:95-104 (started_at is a wall-clock stamp no
\* operation reads back; it is left out).
add_search(R, token, term) ==
    [searches |-> Put(R.searches, token, [term |-> term, results |-> 0]),
     search_results |-> IF token \in DOMAIN R.search_results
                           THEN R.search_results
                           ELSE Put(R.search_results, token, <<>>),
     search_terms |-> IF term # <<>>
                         THEN Put(R.search_terms, casefold(term), token)
                         ELSE R.search_terms]

\* DaemonState.remove_search, state.py:106-113: one critical section.
remove_search(R, token) ==
    [searches |-> Pop(R.searches, token),
     search_results |-> Pop(R.search_results, token),
     search_terms |-> IF token \in DOMAIN R.searches /\ R.searches[token].term # <<>>
                         THEN Pop(R.search_terms, casefold(R.searches[token].term))
                         ELSE R.search_terms]

\* The second critical section of DaemonState.ensure_search, state.py:137-145.
register_search(R, key, token, clean_term) ==
    [searches |-> IF token \notin DOMAIN R.searches
                     THEN Put(R.searches, token, [term |-> clean_term, results |-> 0])
                     ELSE R.searches,
     search_results |-> IF token \notin DOMAIN R.searches
                              /\ token \notin DOMAIN R.search_results
                           THEN Put(R.search_results, token, <<>>)
                           ELSE R.search_results,
     search_terms |-> Put(R.search_terms, key, token)]

SetRegistry(R) ==
    /\ searches' = R.searches
    /\ search_results' = R.search_results
    /\ search_terms' = R.search_terms

\* Bridged requests still to be allocated by callers that have entered a
\* bridged call; the cap MaxRequests is charged when the call starts.
Reserved ==
    Cardinality({c \in Callers :
        caller[c].pc \in {"request_search", "browse_invoke", "browse_wait",
                          "tree_alloc", "downloads_alloc"}})

\* Callbacks a caller at position pc will still hand to the owner thread.
ToInvoke(pc) ==
    IF pc \in {"browse_invoke"} THEN 2
    ELSE IF pc \in {"request_search", "search_invoke", "browse_wait", "tree_alloc",
                    "tree_invoke", "downloads_invoke"} THEN 1
    ELSE 0

RECURSIVE Sum(_, _)
Sum(f, S) == IF S = {} THEN 0
             ELSE LET x == CHOOSE y \in S : TRUE IN f[x] + Sum(f, S \ {x})

Queued == Len(main_queue) + Sum([c \in Callers |-> ToInvoke(caller[c].pc)], Callers)

\* A call that allocates a request and hands n callbacks to the owner thread
\* may start.
CanStart(n) ==
    /\ pending_request_id + Reserved < MaxRequests
    /\ Queued + n <= MaxQueue

CanBridge == CanStart(1)

\* ------------------------------------------------------------------ bridge

\* A variant that numbers a new request after the entries now pending, so that
\* an id comes back once its entry is gone.
alloc_id_recycled(last_id, P) == Cardinality(DOMAIN P) + 1

\* The id of a new request, state.py:69-70, 203-204, 333-334:
\* self._pending_request_id += 1
alloc_id(last_id, P) == last_id + 1

\* A variant that only removes an entry whose event was set, leaving behind the
\* entry of a caller that timed out.
take_if_set(P, request_id) ==
    IF P[request_id].event THEN Pop(P, request_id) ELSE P

\* self.pending_requests.pop(request_id, None), state.py:79, 212, 342
take(P, request_id) == Pop(P, request_id)

\* A variant without the deadline: the wait returns only once the event is set.
wait_unbounded(is_set) == is_set

\* threading.Event.wait(timeout=...), state.py:75, 197, 209, 339: the caller
\* is released when the event is set and, the deadline passing whatever the
\* other threads do, also when it is not.
wait(is_set) == is_set \/ ~is_set

\* ------------------------------------------------------------ ensure_search

\* DaemonState.ensure_search, state.py:122-133: trim, reject the empty term,
\* look the key up under the lock, and otherwise enter request_search.
EnsureSearch(c, term) ==
    LET clean_term == strip(term)
        key == casefold(clean_term)
        token == Get(search_terms, key)
        me == [Idle EXCEPT !.op = "ensure_search", !.key = key]
    IN  /\ caller[c].pc = "idle"
        /\ IF clean_term = <<>>
              THEN caller' = [caller EXCEPT ![c] = me]
              ELSE IF token # None
                      THEN caller' = [caller EXCEPT ![c] = [me EXCEPT !.ret = token]]
                      ELSE /\ CanBridge
                           /\ caller' = [caller EXCEPT
                                            ![c] = [me EXCEPT !.pc = "request_search",
                                                              !.term = clean_term]]
        /\ returned' = IF clean_term # <<>> /\ token # None
                           THEN returned \cup {<<key, token>>} ELSE returned
        /\ UNCHANGED << registry, pending_requests, pending_request_id,
                        engine_token, main_queue, produced, removed,
                        browse, downloads, others >>

\* DaemonState.request_search, state.py:68-72: allocate the id and the pending
\* entry under the lock.
RequestSearchAlloc(c) ==
    /\ caller[c].pc = "request_search"
    /\ pending_request_id' = alloc_id(pending_request_id, pending_requests)
    /\ pending_requests' = Put(pending_requests, pending_request_id',
                               [event |-> FALSE, token |-> None])
    /\ caller' = [caller EXCEPT ![c].pc = "search_invoke",
                                ![c].request_id = pending_request_id']
    /\ UNCHANGED << registry, engine_token, main_queue, produced, removed, returned,
                    browse, downloads, others >>

\* state.py:74: events.invoke_main_thread(self._start_search_main_thread, ...)
RequestSearchInvoke(c) ==
    /\ caller[c].pc = "search_invoke"
    /\ main_queue' = Append(main_queue,
                            [fn |-> "_start_search_main_thread",
                             request_id |-> caller[c].request_id,
                             term |-> caller[c].term])
    /\ caller' = [caller EXCEPT ![c].pc = "search_wait"]
    /\ UNCHANGED << registry, pending_requests, pending_request_id,
                    engine_token, produced, removed, returned,
                    browse, downloads, others >>

\* state.py:75-81 and 133-135: the wait returns (event set, or timeout), the
\* caller reads its pending dict and removes its entry; a None token ends
\* ensure_search with None.
RequestSearchReturn(c) ==
    LET token == pending_requests[caller[c].request_id].token
    IN  /\ caller[c].pc = "search_wait"
        /\ wait(pending_requests[caller[c].request_id].event)
        /\ pending_requests' = take(pending_requests, caller[c].request_id)
        /\ caller' = [caller EXCEPT
                         ![c] = IF token = None
                                   THEN Done(caller[c], None)
                                   ELSE [caller[c] EXCEPT !.token = token,
                                                          !.pc = "register"]]
        /\ UNCHANGED << registry, pending_request_id, engine_token,
                        main_queue, produced, removed, returned,
                    browse, downloads, others >>

\* state.py:137-147
EnsureSearchRegister(c) ==
    /\ caller[c].pc = "register"
    /\ SetRegistry(register_search(Registry, caller[c].key, caller[c].token,
                                   caller[c].term))
    /\ caller' = [caller EXCEPT ![c] = Done(caller[c], caller[c].token)]
    /\ returned' = returned \cup {<<caller[c].key, caller[c].token>>}
    /\ UNCHANGED << pending_requests, pending_request_id, engine_token,
                    main_queue, produced, removed,
                    browse, downloads, others >>

\* ------------------------------------------------------- removing searches

\* History: remove_search(token) has removed a live search.
Removed(token) == IF token \in DOMAIN searches THEN removed \cup {token} ELSE removed

\* DaemonState.remove_search_term, state.py:115-119: the key is the casefolded
\* term as given; the lookup is one critical section.
RemoveSearchTerm(c, term) ==
    LET key == casefold(term)
        token == Get(search_terms, key)
        me == [Idle EXCEPT !.op = "remove_search_term", !.key = key]
    IN  /\ caller[c].pc = "idle"
        /\ caller' = [caller EXCEPT
                         ![c] = IF token # None
                                   THEN [me EXCEPT !.pc = "remove", !.token = token]
                                   ELSE me]
        /\ UNCHANGED << registry, pending_requests, pending_request_id,
                        engine_token, main_queue, produced, removed, returned,
                    browse, downloads, others >>

\* state.py:120: self.remove_search(token), a second critical section.
RemoveSearchTermRemove(c) ==
    /\ caller[c].pc = "remove"
    /\ SetRegistry(remove_search(Registry, caller[c].token))
    /\ removed' = Removed(caller[c].token)
    /\ caller' = [caller EXCEPT ![c] = Done(caller[c], None)]
    /\ UNCHANGED << pending_requests, pending_request_id, engine_token,
                    main_queue, produced, returned,
                    browse, downloads, others >>

\* DaemonState.remove_search(token) called on its own: by the "remove-search"
\* event (Application._on_remove_search) and, once per token, by the
\* /search/remove endpoint given no term (api.py:138-139, web.py:294-295).
RemoveSearch(token) ==
    /\ SetRegistry(remove_search(Registry, token))
    /\ removed' = Removed(token)
    /\ UNCHANGED << pending_requests, pending_request_id, engine_token,
                    main_queue, caller, produced, returned,
                    browse, downloads, others >>

\* ----------------------------------------------------------- search results

\* A fileinfo tuple of a search response, (_code, name, size, _ext, file_attrs),
\* with file_attrs given by what FileListMessage.parse_audio_quality_length
\* makes of it (h_quality, h_length); present = FALSE is file_attrs None.
NoAttrs == [present |-> FALSE, h_quality |-> "", h_length |-> ""]

\* Names and paths are sequences of one-character strings, as the terms are.
\* File1 is music\Abbey Road\01 - Come Together.mp3.
File1 == [name |-> << "m", "u", "s", "i", "c", "\\", "A", "b", "b", "e", "y",
                     " ", "R", "o", "a", "d", "\\", "0", "1", " ", "-", " ",
                     "C", "o", "m", "e", " ", "T", "o", "g", "e", "t", "h",
                     "e", "r", ".", "m", "p", "3" >>,
          size |-> 1000000, file_attrs |-> NoAttrs]

\* File2 is @@abc\music\b.flac.
File2 == [name |-> << "@", "@", "a", "b", "c", "\\", "m", "u", "s", "i", "c",
                     "\\", "b", ".", "f", "l", "a", "c" >>,
          size |-> 7,
          file_attrs |-> [present |-> TRUE, h_quality |-> "320 kbps",
                          h_length |-> "4:20"]]

\* The result lists a search response delivers (the empty one included).
ResultLists == { <<>>, <<File1>>, <<File2, File1>>, <<File1, File2, File1>> }

\* state.py:164-174
attributes_text(file_attrs) ==
    IF ~file_attrs.present THEN ""
    ELSE IF file_attrs.h_quality # "" /\ file_attrs.h_length # ""
            THEN file_attrs.h_quality \o ", " \o file_attrs.h_length
    ELSE IF file_attrs.h_quality # "" THEN file_attrs.h_quality
    ELSE IF file_attrs.h_length # "" THEN file_attrs.h_length
    ELSE ""

\* state.py:175-183
result_entry(username, fileinfo, free_slots, speed, inqueue) ==
    [user |-> username, path |-> fileinfo.name, size |-> fileinfo.size,
     free_slots |-> free_slots, speed |-> speed, inqueue |-> inqueue,
     attributes |-> attributes_text(fileinfo.file_attrs)]

\* results[:n]
Slice(results, n) == SubSeq(results, 1, IF n < Len(results) THEN n ELSE Len(results))

\* DaemonState.add_search_results, state.py:149-185
\* A variant without the cap: every entry of a response is stored.
add_search_results_uncapped(R, token, username, results, free_slots, speed, inqueue) ==
    IF results = <<>> THEN R
    ELSE IF token \notin DOMAIN R.searches THEN R
    ELSE LET items == IF token \in DOMAIN R.search_results
                         THEN R.search_results[token] ELSE <<>>
             grown == items \o [i \in 1..Len(results) |->
                         result_entry(username, results[i], free_slots, speed, inqueue)]
         IN  [R EXCEPT
                !.search_results = Put(R.search_results, token, grown),
                !.searches = [R.searches EXCEPT ![token].results = Len(grown)]]

\* A variant that stores the entries and leaves the result count as it was.
add_search_results_uncounted(R, token, username, results, free_slots, speed, inqueue) ==
    [add_search_results_uncapped(R, token, username, results, free_slots, speed,
                                 inqueue)
        EXCEPT !.searches = R.searches]

\* A variant that makes the bucket before it looks for the search record.
add_search_results_unguarded(R, token, username, results, free_slots, speed, inqueue) ==
    IF results = <<>> THEN R
    ELSE LET items == IF token \in DOMAIN R.search_results
                         THEN R.search_results[token] ELSE <<>>
         IN  IF token \notin DOMAIN R.searches
                THEN [R EXCEPT !.search_results = Put(R.search_results, token, items)]
                ELSE add_search_results_uncapped(R, token, username, results,
                                                 free_slots, speed, inqueue)

add_search_results(R, token, username, results, free_slots, speed, inqueue) ==
    IF results = <<>> THEN R
    ELSE IF token \notin DOMAIN R.searches THEN R
    ELSE LET items == IF token \in DOMAIN R.search_results
                         THEN R.search_results[token] ELSE <<>>
             remaining == max_search_results - Len(items)
             taken == Slice(results, remaining)
             grown == items \o [i \in 1..Len(taken) |->
                         result_entry(username, taken[i], free_slots, speed, inqueue)]
         IN  IF remaining <= 0
                THEN [R EXCEPT !.search_results = Put(R.search_results, token, items)]
                ELSE [R EXCEPT
                        !.search_results = Put(R.search_results, token, grown),
                        !.searches = [R.searches EXCEPT ![token].results = Len(grown)]]

\* The "file-search-response" event, Application._on_file_search_response
\* (application.py:1800-1808), delivered on the owner thread.
AddSearchResults(token, username, results) ==
    /\ SetRegistry(add_search_results(Registry, token, username, results, TRUE, 500, 0))
    /\ UNCHANGED << pending_requests, pending_request_id, engine_token,
                    main_queue, caller, produced, removed, returned,
                    browse, downloads, others >>

\* ------------------------------------------------------------ owner thread

\* core.search.do_search(term, "global"): the engine assigns the next token
\* and announces the search with "add-search", which Application._on_add_search
\* (application.py:1794-1795) turns into add_search(token, search.term).
do_search(R, token, term) == add_search(R, token, term)

\* The result fields written into pending entry e, with its event set.
filled(e, result) ==
    [f \in DOMAIN e |->
        IF f = "event" THEN TRUE
        ELSE IF f \in DOMAIN result THEN result[f]
        ELSE e[f]]

\* A variant that correlates by submission order: the result goes to the
\* oldest entry pending, whatever its id.
complete_oldest(P, request_id, result) ==
    IF DOMAIN P = {}
       THEN P
       ELSE LET oldest == CHOOSE i \in DOMAIN P : \A j \in DOMAIN P : i <= j
            IN  [P EXCEPT ![oldest] = filled(P[oldest], result)]

\* A variant that sets the event of every pending entry, and writes the result
\* into its own.
complete_broadcast(P, request_id, result) ==
    [i \in DOMAIN P |->
        IF i = request_id THEN filled(P[i], result)
        ELSE [P[i] EXCEPT !.event = TRUE]]

\* A variant that writes the entry whether or not it is still pending.
complete_upsert(P, request_id, result) ==
    IF request_id \notin DOMAIN P
       THEN Put(P, request_id, [event |-> TRUE] @@ result)
       ELSE [P EXCEPT ![request_id] = filled(P[request_id], result)]

\* The locked tail shared by the owner-thread callbacks (state.py:87-93,
\* 256-263, 375-381): no entry for the id, no effect; otherwise the result is
\* written into the entry and its event is set.
complete(P, request_id, result) ==
    IF request_id \notin DOMAIN P
       THEN P
       ELSE [P EXCEPT ![request_id] = filled(P[request_id], result)]

\* History kept for a request the owner thread has served: the result it
\* computed.
Produced(request_id, result) ==
    [result |-> result]

\* DaemonState._start_search_main_thread, state.py:83-93
StartSearchMainThread ==
    /\ main_queue # <<>>
    /\ Head(main_queue).fn = "_start_search_main_thread"
    /\ LET work == Head(main_queue)
           token == engine_token + 1
       IN  /\ engine_token' = token
           /\ SetRegistry(do_search(Registry, token, work.term))
           /\ pending_requests' = complete(pending_requests, work.request_id,
                                           [token |-> token])
           /\ produced' = Put(produced, work.request_id,
                               Produced(work.request_id, [token |-> token]))
    /\ main_queue' = Tail(main_queue)
    /\ UNCHANGED << removed, returned, pending_request_id, caller,
                    browse, downloads, others >>

\* ------------------------------------------------------------- user browse

\* core.users.login_username or config.sections["server"]["login"]
local_username == "me"

\* DaemonState._get_user_browse_key, state.py:398-400
user_browse_key(username, local) == IF local THEN local_username ELSE username

\* Python's None for a tree.
NoTree == <<>>

\* DaemonState.request_user_tree, state.py:195, running _get_user_browse_event
\* (state.py:383-391): the key's event is created if missing and cleared, and
\* its status becomes "loading".
RequestUserTree(c, username, local) ==
    LET key == user_browse_key(username, local)
    IN  /\ caller[c].pc = "idle"
        /\ CanStart(2)
        /\ user_browse_events' = Put(user_browse_events, key, FALSE)
        /\ user_browse_status' = Put(user_browse_status, key, "loading")
        /\ caller' = [caller EXCEPT
                         ![c] = [Idle EXCEPT !.op = "request_user_tree",
                                             !.pc = "browse_invoke",
                                             !.username = username,
                                             !.local = local]]
        /\ UNCHANGED << registry, pending_requests, pending_request_id,
                        engine_token, main_queue, produced, removed, returned, browse_users,
                        downloads, browse_requests, others >>

\* state.py:196
UserTreeInvokeBrowse(c) ==
    /\ caller[c].pc = "browse_invoke"
    /\ main_queue' = Append(main_queue,
                            [fn |-> "_ensure_user_browse_main_thread",
                             username |-> caller[c].username,
                             local |-> caller[c].local])
    /\ caller' = [caller EXCEPT ![c].pc = "browse_wait"]
    /\ UNCHANGED << registry, pending_requests, pending_request_id,
                    engine_token, produced, removed, returned, browse, downloads, others >>

\* A variant that goes on to the second round trip whatever the status.
after_browse_wait_continue(me, status) == [me EXCEPT !.pc = "tree_alloc"]

\* state.py:198-200: what the caller does with the status it read.
after_browse_wait(me, status) ==
    IF status = "not_found"
       THEN Done(me, [status |-> "not_found"])
       ELSE [me EXCEPT !.pc = "tree_alloc"]

\* state.py:197-200: event.wait(timeout=30) returns (event set, or timeout),
\* then the status is read under the lock (_get_user_browse_status,
\* state.py:393-396); "not_found" ends the call.
UserTreeStatus(c) ==
    LET key == user_browse_key(caller[c].username, caller[c].local)
        status == user_browse_status[key]
    IN  /\ caller[c].pc = "browse_wait"
        /\ wait(user_browse_events[key])
        /\ caller' = [caller EXCEPT ![c] = after_browse_wait(caller[c], status)]
        /\ UNCHANGED << registry, pending_requests, pending_request_id,
                        engine_token, main_queue, produced, removed, returned, browse, downloads, others >>

\* state.py:202-206
UserTreeAlloc(c) ==
    /\ caller[c].pc = "tree_alloc"
    /\ pending_request_id' = alloc_id(pending_request_id, pending_requests)
    /\ pending_requests' = Put(pending_requests, pending_request_id',
                               [event |-> FALSE, tree |-> NoTree,
                                status |-> "loading"])
    /\ caller' = [caller EXCEPT ![c].pc = "tree_invoke",
                                ![c].request_id = pending_request_id']
    /\ UNCHANGED << registry, engine_token, main_queue, produced, removed, returned, browse,
                    downloads, others >>

\* state.py:208
UserTreeInvoke(c) ==
    /\ caller[c].pc = "tree_invoke"
    /\ main_queue' = Append(main_queue,
                            [fn |-> "_get_user_tree_main_thread",
                             request_id |-> caller[c].request_id,
                             username |-> caller[c].username,
                             local |-> caller[c].local])
    /\ caller' = [caller EXCEPT ![c].pc = "tree_wait"]
    /\ UNCHANGED << registry, pending_requests, pending_request_id,
                    engine_token, produced, removed, returned, browse, downloads, others >>

\* A variant that reports an entry whose event was never set as a failure.
tree_outcome_failing(result) ==
    IF result.event THEN [status |-> result.status, tree |-> result.tree]
    ELSE [status |-> "timeout", tree |-> NoTree]

\* state.py:217: the dict request_user_tree returns from the popped entry.
tree_outcome(result) == [status |-> result.status, tree |-> result.tree]

\* state.py:209-217: the wait returns, the caller pops its own entry and
\* returns its status and tree (the popped dict is never empty, so the
\* "loading" fallback of line 215 is not taken).
UserTreeReturn(c) ==
    LET result == pending_requests[caller[c].request_id]
    IN  /\ caller[c].pc = "tree_wait"
        /\ wait(result.event)
        /\ pending_requests' = take(pending_requests, caller[c].request_id)
        /\ caller' = [caller EXCEPT
                         ![c] = Done(caller[c], tree_outcome(result))]
        /\ UNCHANGED << registry, pending_request_id, engine_token,
                        main_queue, produced, removed, returned, browse, downloads, others >>

\* core.userbrowse.browse_user / browse_local_shares: with new_request the
\* engine starts tracking the key and requests its listing; a key it already
\* tracks is shown as it is.
browse_start(users, key, new_request) ==
    IF new_request THEN Put(users, key, "requested") ELSE users

\* A variant that asks for a new listing on every call.
new_request_always(users, key) == TRUE

\* The new_request argument, state.py:225-228, 234-237: a new request is made
\* only for a key core.userbrowse.users does not hold.
new_request(users, key) == key \notin DOMAIN users

\* History: one more browse call with new_request=True for key.
Requested(key) ==
    Put(browse_requests, key,
        IF key \in DOMAIN browse_requests THEN browse_requests[key] + 1 ELSE 1)

\* DaemonState._ensure_user_browse_main_thread, state.py:219-237
EnsureUserBrowseMainThread ==
    /\ main_queue # <<>>
    /\ Head(main_queue).fn = "_ensure_user_browse_main_thread"
    /\ LET work == Head(main_queue)
           key == user_browse_key(work.username, work.local)
           fresh == new_request(browse_users, key)
       IN  /\ browse_users' = IF key = "" THEN browse_users
                               ELSE browse_start(browse_users, key, fresh)
           /\ browse_requests' = IF key # "" /\ fresh THEN Requested(key)
                                  ELSE browse_requests
    /\ main_queue' = Tail(main_queue)
    /\ UNCHANGED << registry, pending_requests, pending_request_id,
                    engine_token, caller, produced, removed, returned, user_browse_events,
                    user_browse_status, downloads, others >>

\* A variant that finds no listing for any key.
build_user_tree_untracked(users, username, hide_at_root) == NoTree

\* trees.build_user_tree, trees.py:69-91, as far as the bridge sees it: None
\* for a key the engine does not track or whose listing holds no folder,
\* otherwise the tree of that key's listing.
build_user_tree(users, username, hide_at_root) ==
    IF username \in DOMAIN users /\ users[username] = "loaded"
       THEN << username, hide_at_root >>
       ELSE NoTree

\* The status and tree computed by _get_user_tree_main_thread, state.py:240-254
user_tree_result(users, username, local) ==
    LET name == IF local THEN local_username ELSE username
        tree == build_user_tree(users, name, ~local)
    IN  IF name = "" THEN [status |-> "error", tree |-> NoTree]
        ELSE [status |-> IF tree # NoTree THEN "ready" ELSE "loading",
              tree |-> tree]

\* DaemonState._get_user_tree_main_thread, state.py:239-263
GetUserTreeMainThread ==
    /\ main_queue # <<>>
    /\ Head(main_queue).fn = "_get_user_tree_main_thread"
    /\ LET work == Head(main_queue)
           result == user_tree_result(browse_users, work.username, work.local)
       IN  /\ pending_requests' = complete(pending_requests, work.request_id, result)
           /\ produced' = Put(produced, work.request_id,
                               Produced(work.request_id, result))
    /\ main_queue' = Tail(main_queue)
    /\ UNCHANGED << removed, returned, registry, pending_request_id, engine_token, caller,
                    browse, downloads, others >>

\* DaemonState.notify_user_browse / notify_user_browse_not_found,
\* state.py:402-414: the status is written under the lock and the key's event,
\* if there is one, is set.
notify(events, key) == IF key \in DOMAIN events THEN Put(events, key, TRUE) ELSE events

\* The "shared-file-list-response" event, Application._on_shared_file_list_response
\* (application.py:1810-1812): the listing of a requested key has arrived.
NotifyUserBrowse(username) ==
    /\ username \in DOMAIN browse_users
    /\ browse_users[username] = "requested"
    /\ browse_users' = Put(browse_users, username, "loaded")
    /\ user_browse_status' = Put(user_browse_status, username, "ready")
    /\ user_browse_events' = notify(user_browse_events, username)
    /\ UNCHANGED << registry, pending_requests, pending_request_id,
                    engine_token, main_queue, caller, produced, removed,
                    returned, downloads, browse_requests, others >>

\* DaemonState.notify_user_browse_not_found, state.py:409-414: the requested
\* key turned out not to exist.
NotifyUserBrowseNotFound(username) ==
    /\ username \in DOMAIN browse_users
    /\ browse_users[username] = "requested"
    /\ user_browse_status' = Put(user_browse_status, username, "not_found")
    /\ user_browse_events' = notify(user_browse_events, username)
    /\ UNCHANGED << registry, pending_requests, pending_request_id,
                    engine_token, main_queue, caller, produced, removed, returned, browse_users,
                    downloads, browse_requests, others >>

\* ------------------------------------------------------ downloads snapshot

\* DaemonState.request_downloads_snapshot, state.py:332-336
RequestDownloadsSnapshot(c) ==
    /\ caller[c].pc = "idle"
    /\ CanBridge
    /\ pending_request_id' = alloc_id(pending_request_id, pending_requests)
    /\ pending_requests' = Put(pending_requests, pending_request_id',
                               [event |-> FALSE, downloads |-> <<>>])
    /\ caller' = [caller EXCEPT
                     ![c] = [Idle EXCEPT !.op = "request_downloads_snapshot",
                                         !.pc = "downloads_invoke",
                                         !.request_id = pending_request_id']]
    /\ UNCHANGED << registry, engine_token, main_queue, produced, removed, returned, browse,
                    downloads, others >>

\* state.py:338
DownloadsInvoke(c) ==
    /\ caller[c].pc = "downloads_invoke"
    /\ main_queue' = Append(main_queue,
                            [fn |-> "_downloads_snapshot_main_thread",
                             request_id |-> caller[c].request_id])
    /\ caller' = [caller EXCEPT ![c].pc = "downloads_wait"]
    /\ UNCHANGED << registry, pending_requests, pending_request_id,
                    engine_token, produced, removed, returned, browse, downloads, others >>

\* state.py:339-347: the wait returns, the caller pops its own entry and
\* returns its downloads list.
DownloadsReturn(c) ==
    LET result == pending_requests[caller[c].request_id]
    IN  /\ caller[c].pc = "downloads_wait"
        /\ wait(result.event)
        /\ pending_requests' = take(pending_requests, caller[c].request_id)
        /\ caller' = [caller EXCEPT
                         ![c] = Done(caller[c], result.downloads)]
        /\ UNCHANGED << registry, pending_request_id, engine_token,
                        main_queue, produced, removed, returned, browse, downloads, others >>

\* Python's None for a local path.
NoPath == ""

\* The key of an override, state.py:322, 327, 354
override_key(username, virtual_path) == username \o virtual_path

\* A resolution that takes the completed-file path first.
resolve_local_path_conventional(transfer, overrides, disk) ==
    LET key == override_key(transfer.username, transfer.virtual_path)
        override == IF key \in DOMAIN overrides THEN overrides[key] ELSE NoPath
    IN  IF transfer.status # "Finished" THEN NoPath
        ELSE IF transfer.complete_path \in disk THEN transfer.complete_path
        ELSE IF override # NoPath /\ override \in disk THEN override
        ELSE NoPath

\* state.py:352-361: the local path shown for one transfer.  The completed-file
\* path and whether it exists come from
\* core.downloads.get_complete_download_file_path.
resolve_local_path(transfer, overrides, disk) ==
    LET key == override_key(transfer.username, transfer.virtual_path)
        override == IF key \in DOMAIN overrides THEN overrides[key] ELSE NoPath
    IN  IF transfer.status # "Finished" THEN NoPath
        ELSE IF override # NoPath /\ override \in disk THEN override
        ELSE IF transfer.complete_path \in disk THEN transfer.complete_path
        ELSE NoPath

\* state.py:364-373
download_entry(transfer, local_path) ==
    [user |-> transfer.username, path |-> transfer.virtual_path,
     virtual_path |-> transfer.virtual_path, status |-> transfer.status,
     size |-> transfer.size, offset |-> transfer.current_byte_offset,
     folder |-> transfer.folder_path, local_path |-> local_path]

\* An override table no resolution changes.
after_resolution_kept(overrides, transfer, local_path) == overrides

\* state.py:362-363 with clear_download_override, state.py:326-329: the
\* override table after one transfer was resolved.
after_resolution(overrides, transfer, local_path) ==
    IF local_path = NoPath /\ transfer.status = "Finished"
       THEN Pop(overrides, override_key(transfer.username, transfer.virtual_path))
       ELSE overrides

\* state.py:350-373: the loop over the transfers, carrying the list built so
\* far and the override table.
RECURSIVE snapshot_loop(_, _, _, _)
snapshot_loop(todo, done, overrides, disk) ==
    IF todo = <<>> THEN [downloads |-> done, overrides |-> overrides]
    ELSE LET transfer == Head(todo)
             local_path == resolve_local_path(transfer, overrides, disk)
             cleared == after_resolution(overrides, transfer, local_path)
         IN  snapshot_loop(Tail(todo),
                           Append(done, download_entry(transfer, local_path)),
                           cleared, disk)

\* DaemonState._downloads_snapshot_main_thread, state.py:349-381
DownloadsSnapshotMainThread ==
    /\ main_queue # <<>>
    /\ Head(main_queue).fn = "_downloads_snapshot_main_thread"
    /\ LET work == Head(main_queue)
           out == snapshot_loop(transfers, <<>>, download_path_overrides, files)
           result == [downloads |-> out.downloads]
       IN  /\ download_path_overrides' = out.overrides
           /\ pending_requests' = complete(pending_requests, work.request_id, result)
           /\ produced' = Put(produced, work.request_id,
                               Produced(work.request_id, result))
           /\ resolved' = [transfers |-> transfers,
                           overrides |-> download_path_overrides,
                           disk |-> files,
                           downloads |-> out.downloads,
                           after |-> out.overrides]
    /\ main_queue' = Tail(main_queue)
    /\ UNCHANGED << removed, returned, registry, pending_request_id, engine_token, caller,
                    browse, transfers, files, locking, shown >>

\* The transfer the download_user and download_path fields of a file request
\* name: the number of a transfer, or 0 when the fields are empty.
Named == {0} \cup DOMAIN InitialTransfers

\* The paths a file request can name under the download folder, the only
\* allowed root here.
Paths == {"dl/a.mp3", "dl/b.flac", "dl/renamed.mp3"}

RenameFileEager(path, name, named) ==
    /\ download_path_overrides' =
          IF named = 0 THEN download_path_overrides
          ELSE Put(download_path_overrides,
                   override_key(transfers[named].username,
                                transfers[named].virtual_path),
                   "dl/" \o name)
    /\ reader' = [pc |-> "rest", copy |-> <<>>,
                  ret |-> [op |-> "rename_file", status |-> 404,
                           named |-> named]]
    /\ UNCHANGED << registry, pending_requests, pending_request_id,
                    engine_token, main_queue, caller, produced, removed,
                    returned, browse, transfers, files, locking, resolved,
                    chat_lines, share, engine >>

\* POST /files/rename, api.py:218-252 (web.py:226-255).  The request is
\* rejected when the path is outside the allowed roots (403), does not exist
\* (404), when the name is missing or is more than a base name (400), when the
\* new path resolves outside the allowed roots, as the name "out" of a link
\* does (403), or exists (409), and it fails when os.rename raises (500).
\* Otherwise the file is renamed and, when the request names a download, the
\* new path is recorded as its override (DaemonState.set_download_override,
\* state.py:321-324).  The response is kept in reader.ret.
RenameFile(path, name, named) ==
    LET safe_name == IF name = "sub/x.mp3" THEN "x.mp3" ELSE name
        new_path == "dl/" \o safe_name
        statuses == IF path \notin Paths THEN {403}
                    ELSE IF path \notin files THEN {404}
                    ELSE IF name = "" THEN {400}
                    ELSE IF safe_name # name \/ safe_name \in {".", ".."}
                       THEN {400}
                    ELSE IF safe_name = "out" THEN {403}
                    ELSE IF new_path \in files THEN {409}
                    ELSE {500, 204}
    IN  \E status \in statuses :
           /\ files' = IF status = 204 THEN (files \ {path}) \cup {new_path}
                       ELSE files
           /\ download_path_overrides' =
                 IF status # 204 \/ named = 0 THEN download_path_overrides
                 ELSE Put(download_path_overrides,
                          override_key(transfers[named].username,
                                       transfers[named].virtual_path),
                          new_path)
           /\ reader' = [pc |-> "rest", copy |-> <<>>,
                         ret |-> [op |-> "rename_file", status |-> status,
                                  named |-> named]]
           /\ UNCHANGED << registry, pending_requests, pending_request_id,
                           engine_token, main_queue, caller, produced, removed,
                           returned, browse, transfers, locking, resolved,
                           chat_lines, share, engine >>

\* POST /files/delete, api.py:190-216 (web.py:195-224).  The request is
\* rejected when the path is outside the allowed roots (403) or does not exist
\* (404), and it fails when os.remove raises (500).  Otherwise the file is
\* removed and, when the request names a download, its override is dropped
\* (DaemonState.clear_download_override, state.py:326-329).  The response is
\* kept in reader.ret.
DeleteFileRequest(path, named) ==
    LET statuses == IF path \notin Paths THEN {403}
                    ELSE IF path \notin files THEN {404}
                    ELSE {500, 204}
    IN  \E status \in statuses :
           /\ files' = IF status = 204 THEN files \ {path} ELSE files
           /\ download_path_overrides' =
                 IF status # 204 \/ named = 0 THEN download_path_overrides
                 ELSE Pop(download_path_overrides,
                          override_key(transfers[named].username,
                                       transfers[named].virtual_path))
           /\ reader' = [pc |-> "rest", copy |-> <<>>,
                         ret |-> [op |-> "delete_file", status |-> status,
                                  named |-> named]]
           /\ UNCHANGED << registry, pending_requests, pending_request_id,
                           engine_token, main_queue, caller, produced, removed,
                           returned, browse, transfers, locking, resolved,
                           chat_lines, share, engine >>

\* The engine completes the download of transfer i: the file is at its
\* completed-file path and the transfer is finished.
FinishDownload(i) ==
    /\ transfers[i].status # "Finished"
    /\ transfers' = [transfers EXCEPT
                        ![i].status = "Finished",
                        ![i].current_byte_offset = transfers[i].size]
    /\ files' = files \cup {transfers[i].complete_path}
    /\ UNCHANGED << registry, pending_requests, pending_request_id,
                    engine_token, main_queue, caller, produced, removed,
                    returned, browse, download_path_overrides, others >>

\* ------------------------------------------------- the lock, step by step

\* In the actions below a `with self._lock:` block is two steps of the thread
\* running it: taking the lock, which waits until it is free, and the body
\* together with the release.  What is done outside such a block is a step
\* taken without the lock.

\* What no thread changes while the lock is followed step by step.
settled == << caller, produced, removed, returned, browse, shown, transfers,
             resolved >>

\* A variant in which leaving a `with` block keeps the lock.
release_never(holder) == holder

\* Leaving a `with self._lock:` block.
release(holder) == Free

\* Thread t, at position at, enters a `with self._lock:` block and is then at
\* position inside.
Acquire(t, at, inside) ==
    /\ thread[t].pc = at
    /\ lock = Free
    /\ lock' = t
    /\ thread' = [thread EXCEPT ![t].pc = inside]
    /\ UNCHANGED << registry, pending_requests, pending_request_id, engine_token,
                    main_queue, downloads, settled >>

\* The positions before the `with` blocks, each with the position inside.
Blocks ==
    { <<"request_search", "request_search:69">>,
      <<"request_search:77", "request_search:78">>,
      <<"remove_search_term", "remove_search_term:118">>,
      <<"remove_search", "remove_search:108">>,
      <<"set_download_override", "set_download_override:324">>,
      <<"request_downloads_snapshot", "request_downloads_snapshot:333">>,
      <<"request_downloads_snapshot:341", "request_downloads_snapshot:342">>,
      <<"add_search", "add_search:97">>,
      <<"_start_search_main_thread:87", "_start_search_main_thread:88">>,
      <<"clear_download_override", "clear_download_override:329">>,
      <<"_downloads_snapshot_main_thread:375",
        "_downloads_snapshot_main_thread:376">> }

\* Thread t is inside a `with` block: it holds the lock at position pc.
Holding(t, pc) ==
    /\ thread[t].pc = pc
    /\ lock = t

\* Thread t starts operation op at position pc.
Begin(t, op, pc) == [Resting EXCEPT !.op = op, !.pc = pc]

\* Thread t ends its operation and keeps none of its locals.
End(t) == Resting

\* The requests that the calls under way will still allocate.
LockReserved ==
    Cardinality({d \in Callers :
        thread[d].pc \in {"request_search", "request_search:69",
                          "request_downloads_snapshot",
                          "request_downloads_snapshot:333"}})

\* One more bridged call may start.
CanLockStart == pending_request_id + LockReserved < MaxRequests

\* A caller enters request_search(term), state.py:67.
LockRequestSearch(c) ==
    /\ thread[c].pc = "rest"
    /\ CanLockStart
    /\ thread' = [thread EXCEPT ![c] = Begin(c, "request_search", "request_search")]
    /\ UNCHANGED << lock, registry, pending_requests, pending_request_id,
                    engine_token, main_queue, downloads, settled >>

\* state.py:69-72, inside the lock.
LockRequestSearchAlloc(c) ==
    /\ Holding(c, "request_search:69")
    /\ pending_request_id' = alloc_id(pending_request_id, pending_requests)
    /\ pending_requests' = Put(pending_requests, pending_request_id',
                               [event |-> FALSE, token |-> None])
    /\ lock' = release(lock)
    /\ thread' = [thread EXCEPT ![c].pc = "request_search:74",
                                ![c].request_id = pending_request_id']
    /\ UNCHANGED << registry, engine_token, main_queue, downloads, settled >>

\* state.py:74, outside the lock.
LockRequestSearchInvoke(c) ==
    /\ thread[c].pc = "request_search:74"
    /\ main_queue' = Append(main_queue,
                            [fn |-> "_start_search_main_thread",
                             request_id |-> thread[c].request_id,
                             term |-> <<"b">>])
    /\ thread' = [thread EXCEPT ![c].pc = "request_search:75"]
    /\ UNCHANGED << lock, registry, pending_requests, pending_request_id,
                    engine_token, downloads, settled >>

\* state.py:75: pending["event"].wait(timeout=3), outside the lock.
LockRequestSearchWait(c) ==
    /\ thread[c].pc = "request_search:75"
    /\ wait(pending_requests[thread[c].request_id].event)
    /\ thread' = [thread EXCEPT ![c].pc = "request_search:77"]
    /\ UNCHANGED << lock, registry, pending_requests, pending_request_id,
                    engine_token, main_queue, downloads, settled >>

\* state.py:78-81, inside the lock.
LockRequestSearchPop(c) ==
    /\ Holding(c, "request_search:78")
    /\ pending_requests' = take(pending_requests, thread[c].request_id)
    /\ lock' = release(lock)
    /\ thread' = [thread EXCEPT ![c] = End(c)]
    /\ UNCHANGED << registry, pending_request_id, engine_token, main_queue,
                    downloads, settled >>

\* A caller enters remove_search_term(term), state.py:115-116.
LockRemoveSearchTerm(c) ==
    /\ thread[c].pc = "rest"
    /\ thread' = [thread EXCEPT
                     ![c] = Begin(c, "remove_search_term", "remove_search_term")]
    /\ UNCHANGED << lock, registry, pending_requests, pending_request_id,
                    engine_token, main_queue, downloads, settled >>

\* state.py:118-119, inside the lock: the lookup; with a token the caller goes
\* on to remove_search, state.py:120.
LockRemoveSearchTermLookup(c) ==
    LET token == Get(search_terms, casefold(<<"b">>))
    IN  /\ Holding(c, "remove_search_term:118")
        /\ lock' = release(lock)
        /\ thread' = [thread EXCEPT
                         ![c] = IF token # None
                                   THEN [thread[c] EXCEPT !.pc = "remove_search",
                                                          !.todo = <<token>>]
                                   ELSE End(c)]
        /\ UNCHANGED << registry, pending_requests, pending_request_id,
                        engine_token, main_queue, downloads, settled >>

\* The keys of dict d, a dict keyed by numbers, in ascending order.
RECURSIVE keys(_)
keys(d) ==
    IF DOMAIN d = {} THEN <<>>
    ELSE LET least == CHOOSE k \in DOMAIN d : \A j \in DOMAIN d : k <= j
         IN  <<least>> \o keys(Pop(d, least))

\* A caller enters the /search/remove handler with an empty term,
\* api.py:137-139 (web.py:293-295).
LockRemoveAll(c) ==
    /\ thread[c].pc = "rest"
    /\ thread' = [thread EXCEPT
                     ![c] = Begin(c, "api.remove_search", "api.remove_search:138")]
    /\ UNCHANGED << lock, registry, pending_requests, pending_request_id,
                    engine_token, main_queue, downloads, settled >>

\* api.py:138: list(self.state.searches.keys()), read without the lock.
LockRemoveAllKeys(c) ==
    /\ thread[c].pc = "api.remove_search:138"
    /\ thread' = [thread EXCEPT
                     ![c] = IF DOMAIN searches = {} THEN End(c)
                            ELSE [thread[c] EXCEPT !.pc = "remove_search",
                                                   !.todo = keys(searches)]]
    /\ UNCHANGED << lock, registry, pending_requests, pending_request_id,
                    engine_token, main_queue, downloads, settled >>

\* DaemonState.remove_search, state.py:108-113, inside the lock, for the first
\* token left to remove.
LockRemoveSearch(c) ==
    /\ Holding(c, "remove_search:108")
    /\ SetRegistry(remove_search(Registry, Head(thread[c].todo)))
    /\ lock' = release(lock)
    /\ thread' = [thread EXCEPT
                     ![c] = IF Tail(thread[c].todo) = <<>> THEN End(c)
                            ELSE [thread[c] EXCEPT !.pc = "remove_search",
                                                   !.todo = Tail(thread[c].todo)]]
    /\ UNCHANGED << pending_requests, pending_request_id, engine_token,
                    main_queue, downloads, settled >>

\* A caller enters set_download_override(username, virtual_path, local_path),
\* state.py:321-322.
LockSetDownloadOverride(c, local_path) ==
    /\ thread[c].pc = "rest"
    /\ thread' = [thread EXCEPT
                     ![c] = [Begin(c, "set_download_override",
                                   "set_download_override")
                                EXCEPT !.local_path = local_path]]
    /\ UNCHANGED << lock, registry, pending_requests, pending_request_id,
                    engine_token, main_queue, downloads, settled >>

\* state.py:324, inside the lock, for the first transfer.
LockSetDownloadOverrideWrite(c) ==
    /\ Holding(c, "set_download_override:324")
    /\ download_path_overrides' =
          Put(download_path_overrides,
              override_key(transfers[1].username, transfers[1].virtual_path),
              thread[c].local_path)
    /\ lock' = release(lock)
    /\ thread' = [thread EXCEPT ![c] = End(c)]
    /\ UNCHANGED << registry, pending_requests, pending_request_id,
                    engine_token, main_queue, transfers, files, settled >>

\* A caller enters request_downloads_snapshot, state.py:331.
LockRequestDownloads(c) ==
    /\ thread[c].pc = "rest"
    /\ CanLockStart
    /\ thread' = [thread EXCEPT
                     ![c] = Begin(c, "request_downloads_snapshot",
                                  "request_downloads_snapshot")]
    /\ UNCHANGED << lock, registry, pending_requests, pending_request_id,
                    engine_token, main_queue, downloads, settled >>

\* state.py:333-336, inside the lock.
LockRequestDownloadsAlloc(c) ==
    /\ Holding(c, "request_downloads_snapshot:333")
    /\ pending_request_id' = alloc_id(pending_request_id, pending_requests)
    /\ pending_requests' = Put(pending_requests, pending_request_id',
                               [event |-> FALSE, downloads |-> <<>>])
    /\ lock' = release(lock)
    /\ thread' = [thread EXCEPT ![c].pc = "request_downloads_snapshot:338",
                                ![c].request_id = pending_request_id']
    /\ UNCHANGED << registry, engine_token, main_queue, downloads, settled >>

\* state.py:338, outside the lock.
LockRequestDownloadsInvoke(c) ==
    /\ thread[c].pc = "request_downloads_snapshot:338"
    /\ main_queue' = Append(main_queue,
                            [fn |-> "_downloads_snapshot_main_thread",
                             request_id |-> thread[c].request_id])
    /\ thread' = [thread EXCEPT ![c].pc = "request_downloads_snapshot:339"]
    /\ UNCHANGED << lock, registry, pending_requests, pending_request_id,
                    engine_token, downloads, settled >>

\* state.py:339: pending["event"].wait(timeout=2), outside the lock.
LockRequestDownloadsWait(c) ==
    /\ thread[c].pc = "request_downloads_snapshot:339"
    /\ wait(pending_requests[thread[c].request_id].event)
    /\ thread' = [thread EXCEPT ![c].pc = "request_downloads_snapshot:341"]
    /\ UNCHANGED << lock, registry, pending_requests, pending_request_id,
                    engine_token, main_queue, downloads, settled >>

\* state.py:342-347, inside the lock.
LockRequestDownloadsPop(c) ==
    /\ Holding(c, "request_downloads_snapshot:342")
    /\ pending_requests' = take(pending_requests, thread[c].request_id)
    /\ lock' = release(lock)
    /\ thread' = [thread EXCEPT ![c] = End(c)]
    /\ UNCHANGED << registry, pending_request_id, engine_token, main_queue,
                    downloads, settled >>

\* The owner thread takes the next callback off its queue and starts running
\* it: _start_search_main_thread begins with core.search.do_search (state.py:84),
\* which assigns the token and emits "add-search", handled by add_search;
\* _downloads_snapshot_main_thread begins its loop (state.py:350-351).
LockOwnerTake ==
    LET work == Head(main_queue)
    IN  /\ thread[Main].pc = "rest"
        /\ main_queue # <<>>
        /\ main_queue' = Tail(main_queue)
        /\ IF work.fn = "_start_search_main_thread"
              THEN /\ engine_token' = engine_token + 1
                   /\ thread' = [thread EXCEPT
                        ![Main] = [Begin(Main, work.fn, "add_search")
                                     EXCEPT !.request_id = work.request_id,
                                            !.todo = <<engine_token + 1>>]]
              ELSE /\ engine_token' = engine_token
                   /\ thread' = [thread EXCEPT
                        ![Main] = [Begin(Main, work.fn,
                                         "_downloads_snapshot_main_thread:351")
                                     EXCEPT !.request_id = work.request_id,
                                            !.todo = transfers]]
        /\ UNCHANGED << lock, registry, pending_requests, pending_request_id,
                        downloads, settled >>

\* DaemonState.add_search, state.py:97-104, inside the lock.
LockAddSearch ==
    /\ Holding(Main, "add_search:97")
    /\ SetRegistry(add_search(Registry, Head(thread[Main].todo), <<"b">>))
    /\ lock' = release(lock)
    /\ thread' = [thread EXCEPT ![Main].pc = "_start_search_main_thread:87"]
    /\ UNCHANGED << pending_requests, pending_request_id, engine_token,
                    main_queue, downloads, settled >>

\* state.py:88-93, inside the lock.
LockStartSearchComplete ==
    /\ Holding(Main, "_start_search_main_thread:88")
    /\ pending_requests' = complete(pending_requests, thread[Main].request_id,
                                    [token |-> Head(thread[Main].todo)])
    /\ lock' = release(lock)
    /\ thread' = [thread EXCEPT ![Main] = End(Main)]
    /\ UNCHANGED << registry, pending_request_id, engine_token, main_queue,
                    downloads, settled >>

\* The owner thread's record once the entry of the first transfer left is
\* appended to the list, state.py:364-373.
snapshot_next(me, local_path) ==
    [me EXCEPT !.ret = Append(me.ret, download_entry(Head(me.todo), local_path)),
               !.todo = Tail(me.todo),
               !.pc = IF Tail(me.todo) = <<>>
                         THEN "_downloads_snapshot_main_thread:375"
                         ELSE "_downloads_snapshot_main_thread:351"]

\* state.py:351-362, outside the lock: the local path of the next transfer is
\* resolved, for a finished one from download_path_overrides.get; a finished
\* transfer left without a path goes on to clear_download_override.
LockSnapshotResolve ==
    LET me == thread[Main]
        transfer == Head(me.todo)
        local_path == resolve_local_path(transfer, download_path_overrides, files)
    IN  /\ me.pc = "_downloads_snapshot_main_thread:351"
        /\ thread' = [thread EXCEPT
                         ![Main] = IF local_path = NoPath
                                      /\ transfer.status = "Finished"
                                      THEN [me EXCEPT !.pc = "clear_download_override"]
                                      ELSE snapshot_next(me, local_path)]
        /\ UNCHANGED << lock, registry, pending_requests, pending_request_id,
                        engine_token, main_queue, downloads, settled >>

\* DaemonState.clear_download_override, state.py:327-329, inside the lock,
\* called at state.py:363.
LockClearDownloadOverride ==
    LET me == thread[Main]
        transfer == Head(me.todo)
    IN  /\ Holding(Main, "clear_download_override:329")
        /\ download_path_overrides' =
              Pop(download_path_overrides,
                  override_key(transfer.username, transfer.virtual_path))
        /\ lock' = release(lock)
        /\ thread' = [thread EXCEPT ![Main] = snapshot_next(me, NoPath)]
        /\ UNCHANGED << registry, pending_requests, pending_request_id,
                        engine_token, main_queue, transfers, files, settled >>

\* state.py:376-381, inside the lock.
LockSnapshotComplete ==
    /\ Holding(Main, "_downloads_snapshot_main_thread:376")
    /\ pending_requests' = complete(pending_requests, thread[Main].request_id,
                                    [downloads |-> thread[Main].ret])
    /\ lock' = release(lock)
    /\ thread' = [thread EXCEPT ![Main] = End(Main)]
    /\ UNCHANGED << registry, pending_request_id, engine_token, main_queue,
                    downloads, settled >>

\* A file is deleted from the disk by something outside the daemon.
DeleteFile(path) ==
    /\ path \in files
    /\ files' = files \ {path}
    /\ UNCHANGED << registry, pending_requests, pending_request_id,
                    engine_token, main_queue, caller, produced, removed,
                    returned, browse, transfers, download_path_overrides,
                    others >>

\* ---------------------------------------------------------- specification

Next ==
    \/ \E c \in Callers, term \in Terms : EnsureSearch(c, term)
    \/ \E c \in Callers : RequestSearchAlloc(c)
    \/ \E c \in Callers : RequestSearchInvoke(c)
    \/ \E c \in Callers : RequestSearchReturn(c)
    \/ \E c \in Callers : EnsureSearchRegister(c)
    \/ \E c \in Callers, term \in Terms : RemoveSearchTerm(c, term)
    \/ \E c \in Callers : RemoveSearchTermRemove(c)
    \/ \E token \in 1..MaxRequests : RemoveSearch(token)
    \/ StartSearchMainThread

Spec == Init /\ [][Next]_vars

\* The bridge with its three kinds of request: a search, a user tree and a
\* downloads snapshot, from two concurrent callers.
NextBridge ==
    \/ \E c \in Callers : EnsureSearch(c, <<"a">>)
    \/ \E c \in Callers : RequestSearchAlloc(c)
    \/ \E c \in Callers : RequestSearchInvoke(c)
    \/ \E c \in Callers : RequestSearchReturn(c)
    \/ \E c \in Callers : EnsureSearchRegister(c)
    \/ StartSearchMainThread
    \/ \E c \in Callers : RequestUserTree(c, "bob", FALSE)
    \/ \E c \in Callers : UserTreeInvokeBrowse(c)
    \/ \E c \in Callers : UserTreeStatus(c)
    \/ \E c \in Callers : UserTreeAlloc(c)
    \/ \E c \in Callers : UserTreeInvoke(c)
    \/ \E c \in Callers : UserTreeReturn(c)
    \/ EnsureUserBrowseMainThread
    \/ GetUserTreeMainThread
    \/ NotifyUserBrowse("bob")
    \/ NotifyUserBrowseNotFound("bob")
    \/ \E c \in Callers : RequestDownloadsSnapshot(c)
    \/ \E c \in Callers : DownloadsInvoke(c)
    \/ \E c \in Callers : DownloadsReturn(c)
    \/ DownloadsSnapshotMainThread

SpecBridge == Init /\ [][NextBridge]_vars

\* The steps by which caller c carries on the call it is in.
CallerStep(c) ==
    \/ RequestSearchAlloc(c)
    \/ RequestSearchInvoke(c)
    \/ RequestSearchReturn(c)
    \/ EnsureSearchRegister(c)
    \/ UserTreeInvokeBrowse(c)
    \/ UserTreeStatus(c)
    \/ UserTreeAlloc(c)
    \/ UserTreeInvoke(c)
    \/ UserTreeReturn(c)
    \/ DownloadsInvoke(c)
    \/ DownloadsReturn(c)

\* The bridge with caller threads that keep running: a caller that can take a
\* step of its call eventually takes one.  Nothing is assumed of the owner
\* thread or of the network, which may never act.
SpecBridgeLive ==
    SpecBridge /\ \A c \in Callers : WF_vars(CallerStep(c))

\* The result buckets: one caller, search responses of every length.
NextResults ==
    \/ \E term \in {<<"a">>, <<"b">>} : EnsureSearch("c1", term)
    \/ RequestSearchAlloc("c1")
    \/ RequestSearchInvoke("c1")
    \/ RequestSearchReturn("c1")
    \/ EnsureSearchRegister("c1")
    \/ StartSearchMainThread
    \/ \E token \in 1..MaxRequests : RemoveSearch(token)
    \/ \E token \in 1..MaxRequests, results \in ResultLists :
          AddSearchResults(token, "alice", results)

SpecResults == Init /\ [][NextResults]_vars

\* The usernames request_user_tree is called with (web.py:435): a user, and
\* the empty name.
Usernames == {"bob", ""}

\* User trees only: two concurrent callers, the owner thread and the listing
\* responses of the network.
NextTree ==
    \/ \E c \in Callers, username \in Usernames : RequestUserTree(c, username, FALSE)
    \/ \E c \in Callers : UserTreeInvokeBrowse(c)
    \/ \E c \in Callers : UserTreeStatus(c)
    \/ \E c \in Callers : UserTreeAlloc(c)
    \/ \E c \in Callers : UserTreeInvoke(c)
    \/ \E c \in Callers : UserTreeReturn(c)
    \/ EnsureUserBrowseMainThread
    \/ GetUserTreeMainThread
    \/ NotifyUserBrowse("bob")
    \/ NotifyUserBrowseNotFound("bob")

SpecTree == Init /\ [][NextTree]_vars

\* The local paths set_download_override is given (api.py:251): the renamed
\* file.
OverridePaths == {"dl/renamed.mp3"}

\* The lock followed step by step: the owner thread and two callers, one in
\* the search operations and one in the downloads operations.
NextLock ==
    \/ \E t \in Threads, b \in Blocks : Acquire(t, b[1], b[2])
    \/ LockRequestSearch("c1")
    \/ \E c \in Callers : LockRequestSearchAlloc(c)
    \/ \E c \in Callers : LockRequestSearchInvoke(c)
    \/ \E c \in Callers : LockRequestSearchWait(c)
    \/ \E c \in Callers : LockRequestSearchPop(c)
    \/ LockRemoveSearchTerm("c1")
    \/ \E c \in Callers : LockRemoveSearchTermLookup(c)
    \/ LockRemoveAll("c1")
    \/ \E c \in Callers : LockRemoveAllKeys(c)
    \/ \E c \in Callers : LockRemoveSearch(c)
    \/ \E local_path \in OverridePaths :
          LockSetDownloadOverride("c2", local_path)
    \/ \E c \in Callers : LockSetDownloadOverrideWrite(c)
    \/ LockRequestDownloads("c2")
    \/ \E c \in Callers : LockRequestDownloadsAlloc(c)
    \/ \E c \in Callers : LockRequestDownloadsInvoke(c)
    \/ \E c \in Callers : LockRequestDownloadsWait(c)
    \/ \E c \in Callers : LockRequestDownloadsPop(c)
    \/ LockOwnerTake
    \/ LockAddSearch
    \/ LockStartSearchComplete
    \/ LockSnapshotResolve
    \/ LockClearDownloadOverride
    \/ LockSnapshotComplete
    \/ \E path \in files : DeleteFile(path)

SpecLock == Init /\ [][NextLock]_vars

\* ---------------------------------------------------- status, shares, chat

\* The capacity of the chat buffer, deque(maxlen=50) at state.py:32, scaled.
maxlen == 2

\* The chat entries the engine delivers (application.py:1761-1792).
Entries == {"room", "global", "pm"}

\* The login statuses of the engine, UserStatus.
LoginStatuses == {"Offline", "Online", "Away"}

\* What core.shares.share_dbs can hold once a scan has finished.
ShareDbs == { [public_files |-> 0, public_streams |-> 0],
              [public_files |-> 2, public_streams |-> 1] }

\* deque.appendleft on a deque that keeps every entry.
appendleft_uncapped(d, entry) == <<entry>> \o d

\* deque.appendleft on a deque of capacity maxlen: the entry becomes the
\* first, and a full deque drops its last.
appendleft(d, entry) ==
    LET longer == <<entry>> \o d
    IN  SubSeq(longer, 1, IF Len(longer) > maxlen THEN maxlen ELSE Len(longer))

\* compute_share_counts, state.py:487-506, with reveal_buddy_shares and
\* reveal_trusted_shares off.
compute_share_counts(core) ==
    IF core.share_dbs = <<>>
       THEN [share_files |-> NoCount, share_folders |-> NoCount]
       ELSE [share_files |-> core.share_dbs.public_files,
             share_folders |-> core.share_dbs.public_streams]

\* DaemonState._get_status_label, state.py:469-484
status_label(core) ==
    CASE core.login_status = "Online" -> "online"
      [] core.login_status = "Away" -> "away"
      [] core.login_status = "Offline" -> "offline"
      [] OTHER -> "unknown"

\* DaemonState.record_chat, state.py:63-65
RecordChat(entry) ==
    /\ chat_lines' = appendleft(chat_lines, entry)
    /\ UNCHANGED << registry, pending_requests, pending_request_id,
                    engine_token, main_queue, caller, produced, removed,
                    returned, browse, downloads, locking, resolved,
                    share, engine, reader >>

\* DaemonState.set_shares_scanning, state.py:53-55, called by
\* _on_shares_preparing (application.py:1733-1734).
SetSharesScanning ==
    /\ share' = [share EXCEPT !.share_status = "scanning"]
    /\ UNCHANGED << registry, pending_requests, pending_request_id,
                    engine_token, main_queue, caller, produced, removed,
                    returned, browse, downloads, locking, resolved,
                    chat_lines, engine, reader >>

\* _on_shares_ready (application.py:1736-1741) calling
\* DaemonState.set_share_counts, state.py:57-61.
SetShareCounts ==
    LET counts == compute_share_counts(engine)
    IN  /\ share' = [share_files |-> counts.share_files,
                     share_folders |-> counts.share_folders,
                     share_status |-> "ready"]
        /\ UNCHANGED << registry, pending_requests, pending_request_id,
                        engine_token, main_queue, caller, produced, removed,
                        returned, browse, downloads, locking, resolved,
                    chat_lines, engine, reader >>

\* The engine finishes a scan of the shares: core.shares.share_dbs is loaded.
SharesScanned(dbs) ==
    /\ engine.share_dbs # dbs
    /\ engine' = [engine EXCEPT !.share_dbs = dbs]
    /\ UNCHANGED << registry, pending_requests, pending_request_id,
                    engine_token, main_queue, caller, produced, removed,
                    returned, browse, downloads, locking, resolved,
                    chat_lines, share, reader >>

\* The engine logs in, goes away or loses the connection:
\* core.users.login_status changes.
SetLoginStatus(login_status) ==
    /\ engine.login_status # login_status
    /\ engine' = [engine EXCEPT !.login_status = login_status]
    /\ UNCHANGED << registry, pending_requests, pending_request_id,
                    engine_token, main_queue, caller, produced, removed,
                    returned, browse, downloads, locking, resolved,
                    chat_lines, share, reader >>

\* DaemonState.snapshot, state.py:417-426: the copy made under the lock.  The
\* field at is history: the engine as it was when the copy was made.
SnapshotCopy ==
    /\ reader.pc = "rest"
    /\ reader' = [pc |-> "snapshot:428",
                  copy |-> [share_files |-> share.share_files,
                            share_folders |-> share.share_folders,
                            share_status |-> share.share_status,
                            chat_lines |-> chat_lines,
                            searches |-> searches,
                            at |-> engine],
                  ret |-> <<>>]
    /\ UNCHANGED << registry, pending_requests, pending_request_id,
                    engine_token, main_queue, caller, produced, removed,
                    returned, browse, downloads, locking, resolved,
                    chat_lines, share, engine >>

\* state.py:428-431: the counts of a snapshot whose copy has none.
share_fallback(copy, core) ==
    LET counts == compute_share_counts(core)
    IN  IF copy.share_files = NoCount \/ copy.share_folders = NoCount
           THEN [share_files |-> counts.share_files,
                 share_folders |-> counts.share_folders,
                 share_status |-> IF counts.share_files # NoCount THEN "ready"
                                  ELSE copy.share_status]
           ELSE [share_files |-> copy.share_files,
                 share_folders |-> copy.share_folders,
                 share_status |-> copy.share_status]

\* state.py:428-463: what snapshot() returns from its copy and from the engine
\* as it is read after the lock was released.  The username, the statistics
\* and the shares list are read from the configuration and are not followed.
snapshot_result(copy, core) ==
    LET counts == share_fallback(copy, core)
    IN  [op |-> "snapshot",
         status |-> status_label(core),
         share_files |-> counts.share_files,
         share_folders |-> counts.share_folders,
         share_status |-> counts.share_status,
         chat |-> copy.chat_lines,
         searches |-> copy.searches]

\* DaemonState.snapshot, state.py:428-463
SnapshotReturn ==
    /\ reader.pc = "snapshot:428"
    /\ reader' = [reader EXCEPT !.pc = "rest",
                                !.ret = snapshot_result(reader.copy, engine)]
    /\ UNCHANGED << registry, pending_requests, pending_request_id,
                    engine_token, main_queue, caller, produced, removed,
                    returned, browse, downloads, locking, resolved,
                    chat_lines, share, engine >>

\* DaemonState.get_chat_snapshot, state.py:465-467
GetChatSnapshot ==
    /\ reader.pc = "rest"
    /\ reader' = [pc |-> "rest", copy |-> <<>>,
                  ret |-> [op |-> "get_chat_snapshot", chat |-> chat_lines]]
    /\ UNCHANGED << registry, pending_requests, pending_request_id,
                    engine_token, main_queue, caller, produced, removed,
                    returned, browse, downloads, locking, resolved,
                    chat_lines, share, engine >>

\* The downloads snapshot of one caller with files renamed and deleted and
\* downloads finishing in between.
NextDownloads ==
    \/ RequestDownloadsSnapshot("c1")
    \/ DownloadsInvoke("c1")
    \/ DownloadsSnapshotMainThread
    \/ DownloadsReturn("c1")
    \/ \E path \in Paths, named \in Named :
          RenameFile(path, "renamed.mp3", named)
    \/ \E path \in Paths, named \in Named : DeleteFileRequest(path, named)
    \/ \E i \in DOMAIN InitialTransfers : FinishDownload(i)

SpecDownloads == Init /\ [][NextDownloads]_vars

\* The registry's status and shares with one thread calling snapshot(), and
\* private messages arriving.
NextSnapshot ==
    \/ RecordChat("pm")
    \/ SetSharesScanning
    \/ SetShareCounts
    \/ \E dbs \in ShareDbs : SharesScanned(dbs)
    \/ \E login_status \in LoginStatuses : SetLoginStatus(login_status)
    \/ SnapshotCopy
    \/ SnapshotReturn

SpecSnapshot == Init /\ [][NextSnapshot]_vars

\* The chat buffer with one thread reading it.
NextChat ==
    \/ \E entry \in Entries : RecordChat(entry)
    \/ SnapshotCopy
    \/ SnapshotReturn
    \/ GetChatSnapshot

SpecChat == Init /\ [][NextChat]_vars

\* The "shared-file-list-response" event, Application._on_shared_file_list_response
\* (application.py:1810-1812), for a listing the engine has no request
\* outstanding for: the handler asks only for a username and calls
\* notify_user_browse (state.py:402-407), which writes the status of the key
\* whether or not the key has an event.
ListingResponse(username) ==
    /\ username # ""
    /\ ~(username \in DOMAIN browse_users /\ browse_users[username] = "requested")
    /\ user_browse_status' = Put(user_browse_status, username, "ready")
    /\ user_browse_events' = notify(user_browse_events, username)
    /\ UNCHANGED << registry, pending_requests, pending_request_id,
                    engine_token, main_queue, caller, produced, removed,
                    returned, browse_users, downloads, browse_requests, others >>

\* User trees with the listings peers send: those the daemon asked for, and
\* those of a user it did not ask for.
NextListing ==
    \/ NextTree
    \/ \E username \in {"bob", "eve"} : ListingResponse(username)

SpecListing == Init /\ [][NextListing]_vars

\* Searches for terms that may be blank: the terms of Terms, the empty term and
\* a term of one space, from two concurrent callers.
NextEmptyTerm ==
    \/ \E c \in Callers, term \in Terms \cup { <<>>, << " " >> } :
          EnsureSearch(c, term)
    \/ \E c \in Callers : RequestSearchAlloc(c)
    \/ \E c \in Callers : RequestSearchInvoke(c)
    \/ \E c \in Callers : RequestSearchReturn(c)
    \/ \E c \in Callers : EnsureSearchRegister(c)
    \/ StartSearchMainThread

SpecEmptyTerm == Init /\ [][NextEmptyTerm]_vars

\* ------------------------------------------------------------------- trees

\* The characters of names and paths in the order of their code points, which
\* is the order Python compares strings by.
Chars == << " ", "(", ")", "-", ".", "/", "0", "1", "2", "3", "4", "5", "6",
            "7", "8", "9", "@", "A", "B", "C", "D", "E", "F", "G", "H", "I",
            "J", "K", "L", "M", "N", "O", "P", "Q", "R", "S", "T", "U", "V",
            "W", "X", "Y", "Z", "\\", "_", "a", "b", "c", "d", "e", "f", "g",
            "h", "i", "j", "k", "l", "m", "n", "o", "p", "q", "r", "s", "t",
            "u", "v", "w", "x", "y", "z" >>

\* The sort key of trees._sort_tree, trees.py:16, compared as Python compares
\* tuples: directories before files, then the lowercased names.
key_lt(x, y) ==
    LET rank(child) == IF child.type = "dir" THEN 0 ELSE 1
        ord(ch) == CHOOSE i \in 1..Len(Chars) : Chars[i] = ch
        RECURSIVE before(_, _)
        before(a, b) ==
            IF b = <<>> THEN FALSE
            ELSE IF a = <<>> THEN TRUE
            ELSE IF a[1] # b[1] THEN ord(a[1]) < ord(b[1])
            ELSE before(Tail(a), Tail(b))
    IN  \/ rank(x) < rank(y)
        \/ rank(x) = rank(y) /\ before(casefold(x.name), casefold(y.name))

\* list.sort(key=...), trees.py:16: a stable sort.
RECURSIVE sorted(_)
sorted(children) ==
    LET RECURSIVE insert(_, _)
        insert(done, child) ==
            IF done = <<>> THEN << child >>
            ELSE IF key_lt(child, Head(done)) THEN << child >> \o done
            ELSE << Head(done) >> \o insert(Tail(done), child)
    IN  IF children = <<>> THEN <<>>
        ELSE insert(sorted(SubSeq(children, 1, Len(children) - 1)),
                    children[Len(children)])

\* trees._sort_tree, trees.py:14-19
RECURSIVE sort_tree(_)
sort_tree(node) ==
    LET children == sorted(node.children)
    IN  [node EXCEPT !.children =
            [i \in 1..Len(children) |->
                IF children[i].type = "dir" THEN sort_tree(children[i])
                ELSE children[i]]]

\* A split that finds no separator.
split_whole(path) == << path >>

\* str.split("\\"), trees.py:114: the segments between the separators.
RECURSIVE split(_)
split(path) ==
    IF \A i \in 1..Len(path) : path[i] # "\\" THEN << path >>
    ELSE LET i == CHOOSE i \in 1..Len(path) :
                     /\ path[i] = "\\"
                     /\ \A j \in 1..(i - 1) : path[j] # "\\"
         IN  << SubSeq(path, 1, i - 1) >> \o split(SubSeq(path, i + 1, Len(path)))

\* trees.py:101-137: the tree after one more result.  The child directory of
\* a name is the first one of that name (_find_child_dir, trees.py:7-11; the
\* user_nodes dictionary, trees.py:108-112).
place(root, entry) ==
    LET find(node, name) ==
            IF \E i \in 1..Len(node.children) :
                  node.children[i].type = "dir" /\ node.children[i].name = name
               THEN CHOOSE i \in 1..Len(node.children) :
                      /\ node.children[i].type = "dir"
                      /\ node.children[i].name = name
                      /\ \A j \in 1..(i - 1) :
                            ~(node.children[j].type = "dir"
                                 /\ node.children[j].name = name)
               ELSE 0
        with(node, name) ==
            IF find(node, name) # 0 THEN node
            ELSE [node EXCEPT !.children =
                     Append(@, [name |-> name, type |-> "dir", children |-> <<>>])]
        RECURSIVE join(_)
        join(segments) ==
            IF segments = <<>> THEN <<>>
            ELSE IF Len(segments) = 1 THEN segments[1]
            ELSE segments[1] \o << "\\" >> \o join(Tail(segments))
        leaf(filename) ==
            [name |-> filename, type |-> "file", size |-> entry.size,
             path |-> entry.path, user |-> entry.user, speed |-> entry.speed,
             free_slots |-> entry.free_slots, attributes |-> entry.attributes]
        all == split(entry.path)
        parts == IF all # <<>> /\ all[1] # <<>> /\ all[1][1] = "@"
                    THEN Tail(all) ELSE all
        joined == join(SubSeq(parts, 1, Len(parts) - 1))
        folder_path == IF joined # <<>> THEN joined
                       ELSE << "(", "r", "o", "o", "t", ")" >>
        users == with(root, entry.user)
        u == find(users, entry.user)
        folders == with(users.children[u], folder_path)
        f == find(folders, folder_path)
    IN  IF entry.user = <<>> \/ entry.path = <<>> THEN root
        ELSE IF parts = <<>> THEN users
        ELSE [users EXCEPT !.children[u] =
                 [folders EXCEPT !.children[f].children =
                     Append(@, leaf(parts[Len(parts)]))]]

\* A builder that answers every bucket with a root without children.
build_search_tree_rooted(results) ==
    [name |-> <<>>, type |-> "root", children |-> <<>>]

\* trees.build_search_tree, trees.py:94-140
build_search_tree(results) ==
    LET RECURSIVE loop(_, _)
        loop(todo, root) ==
            IF todo = <<>> THEN root
            ELSE loop(Tail(todo), place(root, Head(todo)))
    IN  IF results = <<>> THEN NoTree
        ELSE sort_tree(loop(results,
                            [name |-> <<>>, type |-> "root", children |-> <<>>]))

\* DaemonState.build_search_tree, state.py:265-269: the bucket is copied under
\* the lock and the tree is built from the copy.  The field results is
\* history: the copy the tree was built from.
BuildSearchTree(token) ==
    LET results == IF token \in DOMAIN search_results
                      THEN search_results[token] ELSE <<>>
    IN  /\ reader.pc = "rest"
        /\ reader' = [pc |-> "rest", copy |-> <<>>,
                      ret |-> [op |-> "build_search_tree", token |-> token,
                               results |-> results,
                               tree |-> build_search_tree(results)]]
        /\ UNCHANGED << registry, pending_requests, pending_request_id,
                        engine_token, main_queue, caller, produced, removed,
                        returned, browse, downloads, locking, resolved,
                        chat_lines, share, engine >>

\* A lookup that finds no node for any path.
node_map_miss(current, part) == {}

\* node_map.get(path_accum), trees.py:38: the node made for the path that ends
\* with part below the node current, as the set of its places among the
\* children of current.  Every node is entered into node_map under the joined
\* parts that lead to it and appended to the node of the path before, so the
\* node of a path is the dir child of that name, if there is one.
node_map_get(current, part) ==
    { i \in 1..Len(current.children) :
        current.children[i].type = "dir" /\ current.children[i].name = part }

\* A leaf path made of the folder path under which the folder is displayed.
full_path_displayed(original_folder_path, folder_path, basename) ==
    IF folder_path # <<>> THEN folder_path \o << "\\" >> \o basename
    ELSE basename

\* trees.py:51-55: the path of a leaf
full_path(original_folder_path, folder_path, basename) ==
    IF original_folder_path # <<>>
       THEN original_folder_path \o << "\\" >> \o basename
    ELSE IF folder_path # <<>> THEN folder_path \o << "\\" >> \o basename
    ELSE basename

\* trees._build_tree_from_folder_map, trees.py:22-66.  A folder map is the
\* sequence of the items of the dictionary, each with its key folder_path, the
\* full_path of its value and its files, every file with a basename and a size.
build_tree_from_folder_map(folder_map) ==
    LET leaf(item, file) ==
            [name |-> file.name, type |-> "file", size |-> file.size,
             path |-> full_path(item.full_path, item.folder_path, file.name)]
        RECURSIVE attach(_, _, _)
        attach(current, parts, item) ==
            IF parts = <<>>
               THEN [current EXCEPT !.children =
                        @ \o [i \in 1..Len(item.files) |-> leaf(item, item.files[i])]]
            ELSE IF parts[1] = <<>> THEN attach(current, Tail(parts), item)
            ELSE IF node_map_get(current, parts[1]) = {}
               THEN [current EXCEPT !.children =
                        Append(@, attach([name |-> parts[1], type |-> "dir",
                                          children |-> <<>>],
                                         Tail(parts), item))]
            ELSE LET i == CHOOSE i \in node_map_get(current, parts[1]) : TRUE
                 IN  [current EXCEPT !.children[i] = attach(@, Tail(parts), item)]
        RECURSIVE loop(_, _)
        loop(todo, root) ==
            IF todo = <<>> THEN root
            ELSE loop(Tail(todo),
                      attach(root,
                             IF Head(todo).folder_path = <<>> THEN <<>>
                             ELSE split(Head(todo).folder_path),
                             Head(todo)))
    IN  sort_tree(loop(folder_map,
                       [name |-> <<>>, type |-> "root", children |-> <<>>]))

\* trees.build_user_tree, trees.py:69-91, on the listing the engine holds for
\* the user: whether the engine tracks the user, and the public and the
\* private folders, each a sequence of folders with their files.
build_user_tree_of(browsed_user, hide_at_root) ==
    LET RECURSIVE join(_)
        join(segments) ==
            IF segments = <<>> THEN <<>>
            ELSE IF Len(segments) = 1 THEN segments[1]
            ELSE segments[1] \o << "\\" >> \o join(Tail(segments))
        displayed(path) ==
            IF hide_at_root /\ path # <<>> /\ split(path)[1] # <<>>
                  /\ split(path)[1][1] = "@"
               THEN join(Tail(split(path))) ELSE path
        set(map, item) ==
            IF \E i \in 1..Len(map) : map[i].folder_path = item.folder_path
               THEN [i \in 1..Len(map) |->
                        IF map[i].folder_path = item.folder_path THEN item
                        ELSE map[i]]
               ELSE Append(map, item)
        RECURSIVE merge(_, _)
        merge(todo, map) ==
            IF todo = <<>> THEN map
            ELSE merge(Tail(todo),
                       set(map, [folder_path |-> displayed(Head(todo).folder_path),
                                 full_path |-> Head(todo).folder_path,
                                 files |-> Head(todo).files]))
        folder_map == IF ~browsed_user.tracked THEN <<>>
                      ELSE merge(browsed_user.public_folders
                                    \o browsed_user.private_folders, <<>>)
    IN  IF folder_map = <<>> THEN NoTree
        ELSE build_tree_from_folder_map(folder_map)

\* build_user_tree as _get_user_tree_main_thread calls it on the owner thread
\* (state.py:246, 253).  The fields browsed_user and hide_at_root are history:
\* what the tree was built from.
BuildUserTree(browsed_user, hide_at_root) ==
    /\ reader.pc = "rest"
    /\ reader' = [pc |-> "rest", copy |-> <<>>,
                  ret |-> [op |-> "build_user_tree",
                           browsed_user |-> browsed_user,
                           hide_at_root |-> hide_at_root,
                           tree |-> build_user_tree_of(browsed_user, hide_at_root)]]
    /\ UNCHANGED << registry, pending_requests, pending_request_id,
                    engine_token, main_queue, caller, produced, removed,
                    returned, browse, downloads, locking, resolved,
                    chat_lines, share, engine >>

\* DaemonAPI._normalize_search_key, api.py:334-339: the lowercased letters,
\* digits and hyphens of the text.
normalize_search_key(value) ==
    LET isalnum(ch) == \E i \in (7..16) \cup (18..43) \cup (46..71) : Chars[i] = ch
    IN  SelectSeq(casefold(value), LAMBDA ch : isalnum(ch) \/ ch = "-")

matches_search_any(search_key, path_text) == TRUE

\* DaemonAPI._matches_search, api.py:341-345; no search key is the empty key.
matches_search(search_key, path_text) ==
    LET normalized == normalize_search_key(path_text)
    IN  \/ search_key = <<>>
        \/ \E i \in 0..(Len(normalized) - Len(search_key)) :
              SubSeq(normalized, i + 1, i + Len(search_key)) = search_key

\* DaemonAPI._build_files_tree, api.py:431-486, with _build_files_node,
\* api.py:376-429.  A directory on disk is given by its name and its entries in
\* the order os.scandir yields them, and a path that is no directory has another
\* type.  An entry says whether the share filter of its kind matches its path
\* (filtered) and which call on it raises OSError: "scandir" is a directory
\* that cannot be listed, "stat" a file whose size cannot be read, and "is_dir"
\* a link whose target cannot be examined, which raises in the sort key of the
\* listing it is in.  The id and path fields of the nodes are left out.
build_files_tree(search_text, download_dir, shared) ==
    LET search_key == IF strip(search_text) # <<>>
                         THEN normalize_search_key(strip(search_text))
                         ELSE <<>>
        RECURSIVE walk_dir(_, _)
        walk_dir(folder, folder_path) ==
            LET node == [name |-> folder.name, type |-> "dir", children |-> <<>>]
                entries == sorted(folder.children)
                path(entry) == folder_path \o << "/" >> \o entry.name
                child(entry) == walk_dir(entry, path(entry))
                RECURSIVE loop(_)
                loop(todo) ==
                    IF todo = <<>> THEN <<>>
                    ELSE LET entry == Head(todo)
                         IN  (IF entry.type = "dir"
                                 THEN IF entry.filtered THEN <<>>
                                      ELSE IF child(entry).children # <<>>
                                              \/ matches_search(search_key, entry.name)
                                              THEN << child(entry) >>
                                              ELSE <<>>
                              ELSE IF entry.type = "file"
                                 THEN IF \/ entry.filtered
                                         \/ ~matches_search(search_key, path(entry))
                                         \/ entry.error = "stat"
                                         THEN <<>>
                                         ELSE << [name |-> entry.name,
                                                  type |-> "file",
                                                  size |-> entry.size] >>
                              ELSE <<>>)
                             \o loop(Tail(todo))
            IN  IF \/ folder.error = "scandir"
                   \/ \E i \in DOMAIN folder.children :
                         folder.children[i].error = "is_dir"
                   THEN node
                   ELSE [node EXCEPT !.children = loop(entries)]
        build_files_node(label, root) ==
            LET root_node == walk_dir(root, root.name)
            IN  IF root.type # "dir" THEN <<>>
                ELSE IF /\ root_node.children = <<>>
                        /\ search_key # <<>>
                        /\ ~matches_search(search_key, label)
                        THEN <<>>
                ELSE << [root_node EXCEPT !.name = label] >>
        RECURSIVE share_nodes(_)
        share_nodes(todo) ==
            IF todo = <<>> THEN <<>>
            ELSE build_files_node(Head(todo).name, Head(todo).folder)
                    \o share_nodes(Tail(todo))
        downloads_node == build_files_node(<< "D", "o", "w", "n", "l", "o", "a",
                                              "d", "s" >>, download_dir)
        shared_root == [name |-> << "S", "h", "a", "r", "e", "d" >>,
                        type |-> "dir", children |-> share_nodes(shared)]
    IN  [name |-> <<>>, type |-> "root",
         children |-> downloads_node
                      \o IF shared_root.children # <<>> THEN << shared_root >>
                         ELSE <<>>]

\* GET /files/tree, api.py:152-155
BuildFilesTree(search_text, download_dir, shared) ==
    /\ reader.pc = "rest"
    /\ reader' = [pc |-> "rest", copy |-> <<>>,
                  ret |-> [op |-> "_build_files_tree",
                           search_text |-> search_text,
                           download_dir |-> download_dir, shared |-> shared,
                           tree |-> build_files_tree(search_text, download_dir,
                                                     shared)]]
    /\ UNCHANGED << registry, pending_requests, pending_request_id,
                    engine_token, main_queue, caller, produced, removed,
                    returned, browse, downloads, locking, resolved,
                    chat_lines, share, engine >>

\* The search responses and the shares the trees are built from: a path that
\* is only a marker segment, a path without a folder, a user name in upper
\* case and an empty one; a download folder listed file first, and the shares
\* in the order of the configuration, among them one with folders and files
\* that a search for "z" keeps or prunes and that the share filters match, one
\* with a file and a folder that cannot be read, and one with a link that
\* cannot be examined; the search texts; and the listings of browsed users: folders
\* with a marker segment and a shared prefix and a folder without files, one
\* folder in both collections, two folders that differ in the marker segment
\* only, no folder at all, a user the engine does not track, and files at the
\* root beside a path with an empty part.
TreeInputs ==
    LET File3 == [name |-> << "@", "x" >>, size |-> 3, file_attrs |-> NoAttrs]
        File4 == [name |-> << "b", ".", "f", "l", "a", "c" >>, size |-> 4,
                  file_attrs |-> NoAttrs]
        file(name) == [name |-> name, type |-> "file", size |-> 1,
                       filtered |-> FALSE, error |-> "none"]
        dir(name, children) == [name |-> name, type |-> "dir",
                                children |-> children, filtered |-> FALSE,
                                error |-> "none"]
        link(name) == [name |-> name, type |-> "link", filtered |-> FALSE,
                       error |-> "is_dir"]
        music == [name |-> << "m", "u", "s", "i", "c" >>,
                  folder |-> dir(<< "m" >>, << file(<< "b" >>), dir(<< "Z" >>, <<>>),
                                              file(<< "A" >>) >>)]
        audio == [name |-> << "a", "u", "d", "i", "o" >>,
                  folder |-> dir(<< "a" >>, <<>>)]
        missing == [name |-> <<>>, type |-> "missing", children |-> <<>>]
        gone == [name |-> << "g", "o", "n", "e" >>, folder |-> missing]
        rock == [name |-> << "r", "o", "c", "k" >>,
                 folder |-> dir(<< "r" >>,
                                << file(<< "z", "z" >>), dir(<< "e" >>, <<>>),
                                   dir(<< "Z", ".", "d" >>, <<>>),
                                   dir(<< "q" >>, << file(<< "x" >>) >>),
                                   dir(<< "p" >>, << dir(<< "z" >>, <<>>) >>),
                                   [dir(<< "f" >>, << file(<< "z", "f" >>) >>)
                                       EXCEPT !.filtered = TRUE],
                                   [file(<< "z", "h" >>)
                                       EXCEPT !.filtered = TRUE] >>)]
        tape == [name |-> << "t", "a", "p", "e" >>,
                 folder |-> dir(<< "t" >>,
                                << file(<< "a" >>),
                                   [file(<< "b" >>) EXCEPT !.error = "stat"],
                                   [dir(<< "u" >>, << file(<< "c" >>) >>)
                                       EXCEPT !.error = "scandir"] >>)]
        live == [name |-> << "l", "i", "v", "e" >>,
                 folder |-> dir(<< "l" >>,
                                << file(<< "a" >>), link(<< "k" >>),
                                   dir(<< "s" >>, << file(<< "b" >>) >>) >>)]
        alice == << "a", "l", "i", "c", "e" >>
        Bob == << "B", "o", "b" >>
        folder(path, names) ==
            [folder_path |-> path,
             files |-> [i \in 1..Len(names) |-> [name |-> names[i], size |-> i]]]
        listing(public, private) ==
            [tracked |-> TRUE, public_folders |-> public,
             private_folders |-> private]
        xm == << "@", "@", "x", "\\", "m" >>
        ym == << "@", "@", "y", "\\", "m" >>
    IN  [responses |-> { << alice, << File1 >> >>, << alice, << File2 >> >>,
                         << Bob, << File1 >> >>, << alice, << File3 >> >>,
                         << Bob, << File4 >> >>, << <<>>, << File1 >> >> },
         download_dirs |-> { missing, dir(<< "d", "l" >>, << file(<< "a" >>) >>) },
         shared |-> { <<>>, << music, audio >>, << audio, gone, music >>,
                      << rock >>, << tape >>, << live >> },
         searches |-> { <<>>, << " " >>, << "Z", " " >>, << "z", "-" >> },
         listings |->
            { listing(<< folder(xm, << << "a" >> >>),
                         folder(xm \o << "\\", "s" >>, << << "b" >>, << "A" >> >>) >>,
                      << folder(<< "n" >>, <<>>) >>),
              listing(<< folder(<< "m" >>, << << "a" >> >>) >>,
                      << folder(<< "m" >>, << << "c" >> >>) >>),
              listing(<< folder(xm, << << "a" >> >>), folder(ym, << << "b" >> >>) >>,
                      <<>>),
              listing(<<>>, <<>>),
              [listing(<<>>, <<>>) EXCEPT !.tracked = FALSE],
              listing(<< folder(<<>>, << << "r" >> >>),
                         folder(<< "m", "\\", "\\", "s" >>, << << "a" >> >>),
                         folder(<< "m", "\\", "s" >>, << << "b" >> >>) >>,
                      <<>>) }]

\* One search with its responses, and the trees built from its bucket, from
\* the files on disk and from the listings of browsed users; the responses all
\* arrive before the first tree is built, and the trees of the disk and of the
\* listings, which do not depend on the registry, are built before the search.
NextTrees ==
    \/ EnsureSearch("c1", << "b" >>)
    \/ RequestSearchAlloc("c1")
    \/ RequestSearchInvoke("c1")
    \/ RequestSearchReturn("c1")
    \/ EnsureSearchRegister("c1")
    \/ StartSearchMainThread
    \/ \E response \in TreeInputs.responses :
          reader.ret = <<>> /\ AddSearchResults(1, response[1], response[2])
    \/ \E token \in 1..2 : BuildSearchTree(token)
    \/ \E search_text \in TreeInputs.searches,
          download_dir \in TreeInputs.download_dirs, shared \in TreeInputs.shared :
          pending_request_id = 0
             /\ BuildFilesTree(search_text, download_dir, shared)
    \/ \E browsed_user \in TreeInputs.listings, hide_at_root \in BOOLEAN :
          pending_request_id = 0 /\ BuildUserTree(browsed_user, hide_at_root)

SpecTrees == Init /\ [][NextTrees]_vars

\* ------------------------------------------------------ download overrides

\* The (username, virtual_path) pairs the override requests name: the two
\* transfers, and a pair whose username and path concatenate to the same text
\* as the first transfer's.
Pairs == { <<"alice", "music\\a.mp3">>, <<"alic", "emusic\\a.mp3">>,
           <<"bob", "b.flac">> }

\* DaemonState.set_download_override, state.py:321-324
SetDownloadOverride(username, virtual_path, local_path) ==
    /\ download_path_overrides' =
          Put(download_path_overrides, override_key(username, virtual_path),
              local_path)
    /\ UNCHANGED << registry, pending_requests, pending_request_id,
                    engine_token, main_queue, caller, produced, removed,
                    returned, browse, transfers, files, others >>

\* DaemonState.clear_download_override, state.py:326-329
ClearDownloadOverride(username, virtual_path) ==
    /\ download_path_overrides' =
          Pop(download_path_overrides, override_key(username, virtual_path))
    /\ UNCHANGED << registry, pending_requests, pending_request_id,
                    engine_token, main_queue, caller, produced, removed,
                    returned, browse, transfers, files, others >>

\* The override table written pair by pair, and then the file requests, with
\* downloads finishing in between: requests for paths inside and outside the
\* allowed roots, with a name, without one and with names that are rejected,
\* naming a download or none.
NextOverrides ==
    \/ \E pair \in Pairs, local_path \in Paths :
          reader.ret = <<>> /\ SetDownloadOverride(pair[1], pair[2], local_path)
    \/ \E pair \in Pairs :
          reader.ret = <<>> /\ ClearDownloadOverride(pair[1], pair[2])
    \/ \E path \in Paths \cup {"etc/passwd"},
          name \in {"renamed.mp3", "", "..", "sub/x.mp3", "out"},
          named \in Named :
          RenameFile(path, name, named)
    \/ \E path \in Paths \cup {"etc/passwd"}, named \in Named :
          DeleteFileRequest(path, named)
    \/ \E i \in DOMAIN InitialTransfers : FinishDownload(i)

SpecOverrides == Init /\ [][NextOverrides]_vars

\* ------------------------------------------------------------ properties

\* Caller c has returned from ensure_search with a token.
Returned(c) ==
    /\ caller[c].pc = "idle"
    /\ caller[c].op = "ensure_search"
    /\ caller[c].ret # None

\* In this step caller c calls ensure_search and is answered from the term
\* index (state.py:128-131).
IndexHit(c) ==
    /\ caller[c].pc = "idle"
    /\ caller'[c].pc = "idle"
    /\ caller'[c] # caller[c]
    /\ caller'[c].op = "ensure_search"
    /\ caller'[c].ret # None

\* C1: a call of ensure_search answered while a search for its normalized term
\* is alive returns the token the earlier calls for that term returned (those
\* whose search is still alive), and it is answered from the index: it allocates
\* no request and schedules nothing on the owner thread.
C1_RepeatedCallsSameToken ==
    [][\A c \in Callers : IndexHit(c) =>
          /\ UNCHANGED << pending_requests, pending_request_id, main_queue,
                          engine_token >>
          /\ \A d \in Callers \ {c} :
                (Returned(d) /\ caller[d].key = caller'[c].key
                     /\ caller[d].ret \in DOMAIN searches)
                => caller'[c].ret = caller[d].ret]_vars

\* C2: two ensure_search calls, made at any time by any callers, for terms
\* whose trimmed, case-folded forms differ never return the same token.
C2_DistinctTermsDistinctTokens ==
    \A p, q \in returned : p[1] # q[1] => p[2] # q[2]

\* ensure_search has returned tokens for two different normalized terms.
C2_Witness ==
    /\ \E p, q \in returned : p[1] = <<"a">> /\ q[1] = <<"b">>
    /\ \E c \in Callers : Returned(c) /\ caller[c].key = <<"b">>

\* C3: the term index is a bijection between its keys and the live tokens:
\* every key maps to a live token and every live token is the image of exactly
\* one key.
C3_IndexBijective ==
    /\ \A k \in DOMAIN search_terms : search_terms[k] \in DOMAIN searches
    /\ \A t \in DOMAIN searches :
          Cardinality({k \in DOMAIN search_terms : search_terms[k] = t}) = 1

\* C4: a result bucket never holds more than max_search_results entries, and
\* while a token stays registered a bucket that is at the cap, and its
\* resultCount, no longer change.
C4_BucketCapped ==
    /\ [](\A t \in DOMAIN search_results :
             Len(search_results[t]) <= max_search_results)
    /\ [][\A t \in DOMAIN search_results :
             (Len(search_results[t]) = max_search_results
                  /\ t \in DOMAIN searches /\ t \in DOMAIN searches')
             => /\ t \in DOMAIN search_results'
                /\ search_results'[t] = search_results[t]
                /\ searches'[t].results = searches[t].results]_vars

\* A bucket filled to the cap by a response longer than the room left.
C4_Witness ==
    \E t \in DOMAIN search_results :
        /\ Len(search_results[t]) = max_search_results
        /\ t \in DOMAIN searches
        /\ searches[t].results = max_search_results
        /\ search_results[t][1].path = File1.name
        /\ search_results[t][max_search_results].path = File2.name

\* C5: remove_search(token) removes the record, the bucket and the index entry
\* of the token in one step, and no ensure_search call made afterwards is
\* answered with the removed token.
C5_RemovedTokenGone ==
    [][/\ \A t \in removed' \ removed :
             /\ t \notin DOMAIN searches'
             /\ t \notin DOMAIN search_results'
             /\ \A k \in DOMAIN search_terms' : search_terms'[k] # t
       /\ \A c \in Callers : IndexHit(c) => caller'[c].ret \notin removed]_vars

\* C6: when remove_search_term(term) returns, the trimmed, case-folded form of
\* term maps to no token.
C6_RemovedTermUnmapped ==
    [][\A c \in Callers :
          (/\ caller'[c].pc = "idle"
           /\ caller'[c].op = "remove_search_term"
           /\ caller'[c] # caller[c])
          => strip(caller'[c].key) \notin DOMAIN search_terms']_vars

\* The positions at which a caller owns an entry of the pending table.
Waiting == {"search_invoke", "search_wait", "tree_invoke", "tree_wait",
            "downloads_invoke", "downloads_wait"}

InFlight == {c \in Callers : caller[c].pc \in Waiting}

\* C7: request ids only grow, an id given out is greater than every id given
\* out before, the pending table holds only ids that were given out, and two
\* callers never hold the same id.
C7_FreshRequestIds ==
    /\ [](/\ DOMAIN pending_requests \subseteq 1..pending_request_id
          /\ \A c, d \in InFlight :
                c # d => caller[c].request_id # caller[d].request_id)
    /\ [][/\ pending_request_id' >= pending_request_id
          /\ \A id \in DOMAIN pending_requests' \ DOMAIN pending_requests :
                id = pending_request_id' /\ id > pending_request_id]_vars

\* Two callers wait on two different requests at once.
C7_Witness ==
    /\ InFlight = Callers
    /\ DOMAIN pending_requests = {1, 2}
    /\ caller["c1"].request_id = 2

\* A step of the owner thread that serves a bridged request.
Serving ==
    /\ main_queue # <<>>
    /\ main_queue' = Tail(main_queue)
    /\ Head(main_queue).fn # "_ensure_user_browse_main_thread"

\* C8: an owner-thread callback that finds no pending entry for its request id
\* leaves the pending table and every event as they are, although the engine
\* has performed the operation; one that finds the entry writes its result
\* there, sets that entry's event and touches no other entry.
C8_LateCompletionNoOp ==
    [][Serving =>
          LET work == Head(main_queue)
              id == work.request_id
          IN  IF id \notin DOMAIN pending_requests
                 THEN /\ pending_requests' = pending_requests
                      /\ user_browse_events' = user_browse_events
                      /\ id \in DOMAIN produced'
                      /\ work.fn = "_start_search_main_thread"
                            => engine_token' = engine_token + 1
                 ELSE /\ DOMAIN pending_requests' = DOMAIN pending_requests
                      /\ pending_requests'[id].event
                      /\ \A f \in DOMAIN produced'[id].result :
                            pending_requests'[id][f] = produced'[id].result[f]
                      /\ \A other \in DOMAIN pending_requests \ {id} :
                            pending_requests'[other] = pending_requests[other]]_vars

\* The only request ever made was a search whose caller gave up waiting, and
\* the owner thread has served it since.
C8_Witness ==
    /\ \E c \in Callers :
          /\ caller[c].pc = "idle" /\ caller[c].op = "ensure_search"
          /\ caller[c].key # <<>> /\ caller[c].ret = None
    /\ pending_request_id = 1
    /\ 1 \in DOMAIN produced
    /\ engine_token = 1

\* C9: the pending table holds exactly the entries of the callers that are
\* waiting on one, so it is empty whenever no bridged call is under way, and an
\* entry leaves the table only in a step of the caller that created it.
C9_NoLeakedRequests ==
    /\ [](DOMAIN pending_requests = {caller[c].request_id : c \in InFlight})
    /\ [][\A id \in DOMAIN pending_requests \ DOMAIN pending_requests' :
             \E c \in InFlight :
                caller[c].request_id = id /\ caller'[c].pc \notin Waiting]_vars

\* Every request has been made, one of them timed out, and the table is empty.
C9_Witness ==
    /\ pending_requests = EmptyDict
    /\ InFlight = {}
    /\ pending_request_id >= 2
    /\ DOMAIN produced # 1..pending_request_id

\* What a caller at position pc gets when nothing was written for it.
Default(pc) ==
    IF pc = "search_wait" THEN [token |-> None]
    ELSE IF pc = "tree_wait" THEN [status |-> "loading", tree |-> NoTree]
    ELSE [downloads |-> <<>>]

\* What caller record me, just back from its wait, returns.
Outcome(pc, me) ==
    IF pc = "search_wait" THEN [token |-> me.token]
    ELSE IF pc = "tree_wait" THEN me.ret
    ELSE [downloads |-> me.ret]

\* C10: a caller returning from its wait gets the result the owner thread
\* computed for that caller's own request id when its event was set, and the
\* initial value of its entry otherwise.
C10_OwnResultOnly ==
    [][\A c \in Callers :
          (caller[c].pc \in {"search_wait", "tree_wait", "downloads_wait"}
               /\ caller'[c] # caller[c])
          => LET id == caller[c].request_id
                 got == Outcome(caller[c].pc, caller'[c])
             IN  IF pending_requests[id].event
                    THEN id \in DOMAIN produced /\ got = produced[id].result
                    ELSE got = Default(caller[c].pc)]_vars

\* A caller has its token while the owner thread has also served the request of
\* the other caller, which was allocated first and is still waiting.
C10_Witness ==
    /\ caller["c1"].pc = "register"
    /\ caller["c1"].request_id = 2
    /\ caller["c2"].pc \in {"tree_wait", "downloads_wait"}
    /\ caller["c2"].request_id = 1
    /\ pending_requests[1].event

\* Caller c is inside request_user_tree for username, past its first wait.
PastBrowseWait(c, username) ==
    /\ caller[c].username = username
    /\ caller[c].pc \in {"tree_alloc", "tree_invoke", "tree_wait"}

\* C11: however many request_user_tree calls are made for a key, at whatever
\* moments, the engine is asked for a new listing of that key exactly once:
\* every key it tracks was requested once, and no other key was requested.
C11_OneBrowseStart ==
    /\ DOMAIN browse_requests = DOMAIN browse_users
    /\ \A key \in DOMAIN browse_requests : browse_requests[key] = 1

\* Two calls for bob ran at the same time, the owner thread has served both
\* of their browse callbacks, and bob was requested once.
C11_Witness ==
    /\ \A c \in Callers : PastBrowseWait(c, "bob")
    /\ \A i \in 1..Len(main_queue) :
          main_queue[i].fn # "_ensure_user_browse_main_thread"
    /\ "bob" \in DOMAIN browse_requests
    /\ browse_requests["bob"] = 1

\* Caller c, back from its first wait, reads the status not_found.
ReadsNotFound(c) ==
    /\ caller[c].pc = "browse_wait"
    /\ caller'[c] # caller[c]
    /\ user_browse_status[user_browse_key(caller[c].username,
                                          caller[c].local)] = "not_found"

\* C12: a request_user_tree call that reads the status not_found after its
\* first wait returns exactly that status, with no tree, in that step: no
\* pending entry is allocated and nothing more is scheduled on the owner thread.
C12_NotFoundReturnsAtOnce ==
    [][\A c \in Callers : ReadsNotFound(c) =>
          /\ caller'[c].pc = "idle"
          /\ caller'[c].ret = [status |-> "not_found"]
          /\ UNCHANGED << pending_requests, pending_request_id, main_queue >>]_vars

\* A call has returned not_found and no request id was ever allocated.
C12_Witness ==
    /\ \E c \in Callers :
          /\ caller[c].pc = "idle"
          /\ caller[c].op = "request_user_tree"
          /\ caller[c].ret = [status |-> "not_found"]
    /\ pending_request_id = 0

\* Caller c leaves the wait it is in at position pc, in this step.
LeavesWait(c, pc) ==
    /\ caller[c].pc = pc
    /\ caller'[c] # caller[c]

\* The statuses request_user_tree reports.
Statuses == {"ready", "loading", "error", "not_found"}

\* C16: a wait of request_user_tree that ends on its deadline is answered with
\* a status, never a failure: after the first wait the call goes on or
\* returns not_found, a second round trip that timed out returns loading with
\* no tree, and every call returns one of ready, loading, error, not_found,
\* with a tree only when ready.
C16_TimeoutIsAStatus ==
    [][\A c \in Callers :
          /\ (LeavesWait(c, "browse_wait")
                 /\ ~user_browse_events[user_browse_key(caller[c].username,
                                                         caller[c].local)])
              => \/ caller'[c].pc = "tree_alloc"
                 \/ /\ caller'[c].pc = "idle"
                    /\ caller'[c].ret = [status |-> "not_found"]
          /\ (LeavesWait(c, "tree_wait")
                 /\ ~pending_requests[caller[c].request_id].event)
              => /\ caller'[c].pc = "idle"
                 /\ caller'[c].ret = [status |-> "loading", tree |-> NoTree]
          /\ (caller'[c].pc = "idle" /\ caller'[c] # caller[c])
              => /\ caller'[c].ret.status \in Statuses
                 /\ caller'[c].ret.status # "not_found"
                       => (caller'[c].ret.tree # NoTree
                              <=> caller'[c].ret.status = "ready")]_vars

\* Both waits of a call ended on their deadlines: the owner thread has run
\* nothing, and the call has returned loading.
C16_Witness ==
    /\ \E c \in Callers :
          /\ caller[c].pc = "idle"
          /\ caller[c].op = "request_user_tree"
          /\ caller[c].ret = [status |-> "loading", tree |-> NoTree]
    /\ produced = EmptyDict
    /\ browse_users = EmptyDict
    /\ pending_request_id = 1

\* C15: every call of ensure_search, request_user_tree or
\* request_downloads_snapshot that a caller has entered returns, whether or
\* not the owner thread ever runs what was scheduled and whether or not a
\* listing ever arrives.
C15_CallsReturn ==
    \A c \in Callers : (caller[c].pc # "idle") ~> (caller[c].pc = "idle")

\* A search and a user tree call have both returned empty-handed while their
\* callbacks are still waiting for the owner thread.
C15_Witness ==
    /\ caller["c1"].pc = "idle" /\ caller["c1"].op = "ensure_search"
    /\ caller["c1"].key # <<>> /\ caller["c1"].ret = None
    /\ caller["c2"].pc = "idle" /\ caller["c2"].op = "request_user_tree"
    /\ Len(main_queue) = MaxQueue
    /\ produced = EmptyDict

\* The positions inside a `with self._lock:` block, and those before one.
Inside == {b[2] : b \in Blocks}

Before == {b[1] : b \in Blocks}

\* The positions at which a thread's next step schedules work on the owner
\* thread, and those at which it waits for a completion signal.
Scheduling == {"request_search:74", "request_downloads_snapshot:338"}

Suspended == {"request_search:75", "request_downloads_snapshot:339"}

\* The steps by which thread t carries on the operation it is in.
ThreadStep(t) ==
    \/ \E b \in Blocks : Acquire(t, b[1], b[2])
    \/ /\ t \in Callers
       /\ \/ LockRequestSearchAlloc(t)
          \/ LockRequestSearchInvoke(t)
          \/ LockRequestSearchWait(t)
          \/ LockRequestSearchPop(t)
          \/ LockRemoveSearchTermLookup(t)
          \/ LockRemoveAllKeys(t)
          \/ LockRemoveSearch(t)
          \/ LockSetDownloadOverrideWrite(t)
          \/ LockRequestDownloadsAlloc(t)
          \/ LockRequestDownloadsInvoke(t)
          \/ LockRequestDownloadsWait(t)
          \/ LockRequestDownloadsPop(t)
    \/ /\ t = Main
       /\ \/ LockAddSearch
          \/ LockStartSearchComplete
          \/ LockSnapshotResolve
          \/ LockClearDownloadOverride
          \/ LockSnapshotComplete

\* C13: the thread holding the lock is inside a `with` block, never at a
\* position where it schedules work on the owner thread or waits for a signal;
\* the owner thread is never at a waiting position; and no state is a
\* deadlock: a thread inside an operation can take a step, or it is waiting
\* for the lock and the thread holding the lock can take one.
C13_NoDeadlock ==
    /\ lock # Free => thread[lock].pc \in Inside
    /\ \A t \in Threads : thread[t].pc \in Scheduling \cup Suspended => lock # t
    /\ thread[Main].pc \notin Suspended
    /\ \A t \in Threads :
          thread[t].pc # "rest"
          => \/ ENABLED ThreadStep(t)
             \/ /\ thread[t].pc \in Before
                /\ lock \in Threads \ {t}
                /\ ENABLED ThreadStep(lock)

\* One caller holds the lock while the other caller and the owner thread both
\* wait to take it.
C13_Witness ==
    /\ lock = "c1"
    /\ thread["c2"].pc \in Before
    /\ thread[Main].pc \in Before

\* The next step of thread t reads or writes a field of the registry: the body
\* of a `with` block, the listing of searches.keys() at api.py:138, or the
\* resolution of a finished transfer, which reads download_path_overrides at
\* state.py:354.
Touches(t) ==
    \/ thread[t].pc \in Inside
    \/ thread[t].pc = "api.remove_search:138"
    \/ /\ thread[t].pc = "_downloads_snapshot_main_thread:351"
       /\ Head(thread[t].todo).status = "Finished"

\* C14: a thread that reads or writes a field of the registry holds the lock
\* while it does.
C14_AccessUnderLock ==
    [][\A t \in Threads :
          (Touches(t) /\ thread'[t] # thread[t]) => lock = t]_vars

\* A call of snapshot() has returned.
SnapshotReturned ==
    /\ reader.pc = "rest"
    /\ reader.ret # <<>>
    /\ reader.ret.op = "snapshot"

\* C17: what snapshot() returns reflects one single state: the status, the
\* share counts, the chat and the searches it returns are those of the moment
\* its copy was made under the lock.
C17_PointInTime ==
    SnapshotReturned =>
        LET then == reader.copy.at
            counts == share_fallback(reader.copy, then)
        IN  /\ reader.ret.status = status_label(then)
            /\ reader.ret.share_files = counts.share_files
            /\ reader.ret.share_folders = counts.share_folders
            /\ reader.ret.share_status = counts.share_status

\* The smaller of two numbers.
Min(a, b) == IF a < b THEN a ELSE b

\* C18: the chat buffer never holds more than its capacity; a recorded entry
\* becomes the first, the entries before it move down by one and a full
\* buffer loses its oldest; snapshot() and get_chat_snapshot() return the
\* entries in the buffer's order.
C18_ChatNewestFirstCapped ==
    [][ /\ Len(chat_lines') <= maxlen
        /\ chat_lines' # chat_lines =>
              /\ Len(chat_lines') = Min(Len(chat_lines) + 1, maxlen)
              /\ chat_lines'[1] \in Entries
              /\ \A i \in 2..Len(chat_lines') : chat_lines'[i] = chat_lines[i - 1]
        /\ (reader.pc = "rest" /\ reader'.pc = "snapshot:428") =>
              reader'.copy.chat_lines = chat_lines
        /\ (reader.pc = "snapshot:428" /\ reader'.pc = "rest") =>
              reader'.ret.chat = reader.copy.chat_lines
        /\ (reader' # reader /\ reader'.pc = "rest" /\ reader.pc = "rest") =>
              reader'.ret.chat = chat_lines ]_vars

\* A full buffer was read by get_chat_snapshot and an entry it did not hold was
\* recorded since: it is the first, the others moved down and the oldest is
\* gone.
C18_Witness ==
    /\ reader.pc = "rest"
    /\ reader.ret # <<>>
    /\ reader.ret.op = "get_chat_snapshot"
    /\ Len(reader.ret.chat) = maxlen
    /\ Len(chat_lines) = maxlen
    /\ \A i \in 1..maxlen : chat_lines[1] # reader.ret.chat[i]
    /\ \A i \in 2..maxlen : chat_lines[i] = reader.ret.chat[i - 1]
    /\ \A i \in 1..maxlen : chat_lines[i] # reader.ret.chat[maxlen]

\* The override the last downloads snapshot found recorded for its i-th
\* transfer, or NoPath.
OverrideBefore(i) ==
    LET key == override_key(resolved.transfers[i].username,
                            resolved.transfers[i].virtual_path)
    IN  IF key \in DOMAIN resolved.overrides THEN resolved.overrides[key]
        ELSE NoPath

\* The last downloads snapshot left an override recorded for its i-th transfer.
OverrideAfter(i) ==
    override_key(resolved.transfers[i].username,
                 resolved.transfers[i].virtual_path) \in DOMAIN resolved.after

\* The i-th transfer of the last downloads snapshot was finished and had an
\* override whose target was not on disk.
Stale(i) ==
    /\ resolved.transfers[i].status = "Finished"
    /\ OverrideBefore(i) # NoPath
    /\ OverrideBefore(i) \notin resolved.disk

C20_LocalPathResolution ==
    resolved # <<>> =>
        /\ Len(resolved.downloads) = Len(resolved.transfers)
        /\ \A i \in DOMAIN resolved.transfers :
              LET transfer == resolved.transfers[i]
                  local_path == resolved.downloads[i].local_path
              IN  IF transfer.status = "Finished"
                     THEN IF OverrideBefore(i) # NoPath
                             /\ OverrideBefore(i) \in resolved.disk
                             THEN local_path = OverrideBefore(i)
                          ELSE IF transfer.complete_path \in resolved.disk
                             THEN local_path = transfer.complete_path
                          ELSE local_path = NoPath /\ ~OverrideAfter(i)
                     ELSE local_path = NoPath
        /\ DOMAIN resolved.after \subseteq DOMAIN resolved.overrides
        /\ \A key \in DOMAIN resolved.overrides :
              \/ /\ key \in DOMAIN resolved.after
                 /\ resolved.after[key] = resolved.overrides[key]
              \/ \E i \in DOMAIN resolved.transfers :
                    /\ key = override_key(resolved.transfers[i].username,
                                          resolved.transfers[i].virtual_path)
                    /\ resolved.transfers[i].status = "Finished"
                    /\ resolved.downloads[i].local_path = NoPath

\* A snapshot met a finished transfer whose override target and completed file
\* were both on disk, and reported it at the override.
C20_Witness ==
    /\ resolved # <<>>
    /\ \E i \in DOMAIN resolved.transfers :
          /\ resolved.transfers[i].status = "Finished"
          /\ OverrideBefore(i) # NoPath
          /\ OverrideBefore(i) \in resolved.disk
          /\ resolved.transfers[i].complete_path \in resolved.disk
          /\ resolved.downloads[i].local_path = OverrideBefore(i)
          /\ OverrideAfter(i)

\* What a downloads snapshot would show for a finished transfer of the pair,
\* under the override table given, and the override recorded for the pair.
Shown(overrides, pair) ==
    LET key == override_key(pair[1], pair[2])
    IN  << IF key \in DOMAIN overrides THEN overrides[key] ELSE NoPath,
           resolve_local_path([username |-> pair[1], virtual_path |-> pair[2],
                               status |-> "Finished",
                               complete_path |-> "dl/a.mp3"],
                              overrides, files) >>

\* C21: setting or clearing the override of one (username, virtual_path) pair
\* changes the override recorded, and the local path resolved, for no other
\* pair: one such call changes them for at most one pair.
C21_PairsIndependent ==
    [][ (files' = files /\ transfers' = transfers) =>
           Cardinality({ pair \in Pairs :
                           Shown(download_path_overrides', pair)
                              # Shown(download_path_overrides, pair) }) <= 1 ]_vars

\* A call of DaemonState.build_search_tree has returned.
SearchTreeBuilt ==
    /\ reader.ret # <<>>
    /\ reader.ret.op = "build_search_tree"

\* C22: build_search_tree on a token whose bucket is empty, or on a token
\* that has no bucket, returns no tree rather than a root without children.
C22_EmptyBucketNoTree ==
    (SearchTreeBuilt /\ reader.ret.results = <<>>) => reader.ret.tree = NoTree

\* The tree of a registered search whose bucket is still empty was asked for.
C22_Witness ==
    /\ SearchTreeBuilt
    /\ reader.ret.token \in DOMAIN search_results
    /\ search_results[reader.ret.token] = <<>>
    /\ reader.ret.results = <<>>
    /\ reader.ret.tree = NoTree

\* At the node and at every node below it the directories precede the files,
\* and the names of each group ascend when compared without case.
RECURSIVE Ordered(_)
Ordered(node) ==
    \A i \in 1..Len(node.children) :
        LET child == node.children[i]
        IN  /\ child.type = "dir" => Ordered(child)
            /\ \A j \in (i + 1)..Len(node.children) :
                  LET later == node.children[j]
                  IN  /\ ~(child.type = "file" /\ later.type = "dir")
                      /\ child.type = later.type => ~key_lt(later, child)

\* C23: in every tree a builder returns, at every node the directories precede
\* the files and the names of each group are in ascending order without case.
C23_ChildrenOrdered ==
    (reader.ret # <<>> /\ reader.ret.op \in {"build_search_tree", "_build_files_tree"}
        /\ reader.ret.tree # NoTree)
    => Ordered(reader.ret.tree)

\* Where the claim puts a search result: under its user, in the folder made of
\* the segments of its path without a leading marker segment and without the
\* last one, under the name of the last segment.
Placement(entry) ==
    LET RECURSIVE joined(_)
        joined(segments) ==
            IF segments = <<>> THEN <<>>
            ELSE IF Len(segments) = 1 THEN segments[1]
            ELSE segments[1] \o << "\\" >> \o joined(Tail(segments))
        RECURSIVE cut(_, _)
        cut(rest, segment) ==
            IF rest = <<>> THEN << segment >>
            ELSE IF Head(rest) = "\\" THEN << segment >> \o cut(Tail(rest), <<>>)
            ELSE cut(Tail(rest), Append(segment, Head(rest)))
        all == cut(entry.path, <<>>)
        segments == IF all[1] # <<>> /\ all[1][1] = "@" THEN Tail(all) ELSE all
    IN  [placed |-> segments # <<>>,
         user |-> entry.user,
         folder |-> IF segments = <<>> THEN <<>>
                    ELSE joined(SubSeq(segments, 1, Len(segments) - 1)),
         name |-> IF segments = <<>> THEN <<>> ELSE segments[Len(segments)]]

\* The File leaves of a search tree, each by the numbers of its user node, its
\* folder node and itself.
Leaves(tree) ==
    { at \in (1..Len(tree.children)) \X (1..max_search_results)
                \X (1..max_search_results) :
        /\ at[2] <= Len(tree.children[at[1]].children)
        /\ at[3] <= Len(tree.children[at[1]].children[at[2]].children) }

\* The results of the bucket that have a user and a path.
Eligible(results) ==
    { i \in 1..Len(results) : results[i].user # <<>> /\ results[i].path # <<>> }

\* The leaves of the tree that are the result entry under the folder name given.
LeavesOf(tree, entry, folder) ==
    { at \in Leaves(tree) :
        LET user_node == tree.children[at[1]]
            folder_node == user_node.children[at[2]]
            leaf == folder_node.children[at[3]]
        IN  /\ user_node.type = "dir" /\ user_node.name = entry.user
            /\ folder_node.type = "dir" /\ folder_node.name = folder
            /\ leaf.type = "file" /\ leaf.name = Placement(entry).name
            /\ leaf.size = entry.size /\ leaf.path = entry.path }

\* No two user nodes have the same name, and no two folder nodes of a user.
OneNodeEach(tree) ==
    /\ \A u, v \in 1..Len(tree.children) :
          tree.children[u].name = tree.children[v].name => u = v
    /\ \A u \in 1..Len(tree.children) :
          \A f, g \in 1..Len(tree.children[u].children) :
              tree.children[u].children[f].name = tree.children[u].children[g].name
              => f = g

\* C24 as stated: every result with a user and a path is one File leaf at
\* Root -> Dir(user) -> Dir(folder) -> File(name, size), the folder being the
\* segments of the path without a leading marker segment and without the last.
C24_EveryResultPlaced ==
    (SearchTreeBuilt /\ reader.ret.tree # NoTree) =>
        LET tree == reader.ret.tree
            results == reader.ret.results
        IN  /\ OneNodeEach(tree)
            /\ \A i \in Eligible(results) :
                  /\ Placement(results[i]).placed
                  /\ Cardinality(LeavesOf(tree, results[i],
                                          Placement(results[i]).folder))
                        = Cardinality({ j \in Eligible(results) :
                                          results[j] = results[i] })

\* C24: every result with a user and a path that keeps a segment once a
\* leading marker segment is dropped is one File leaf at
\* Root -> Dir(user) -> Dir(folder) -> File(name, size); the folder is named
\* by the segments before the last, or (root) when there is none; results of one
\* user and folder share one Dir node; and the tree has no other leaf.
C24_PlacedResults ==
    (SearchTreeBuilt /\ reader.ret.tree # NoTree) =>
        LET tree == reader.ret.tree
            results == reader.ret.results
            placed == { i \in Eligible(results) : Placement(results[i]).placed }
            folder(i) == IF Placement(results[i]).folder # <<>>
                            THEN Placement(results[i]).folder
                            ELSE << "(", "r", "o", "o", "t", ")" >>
        IN  /\ OneNodeEach(tree)
            /\ Cardinality(Leaves(tree)) = Cardinality(placed)
            /\ \A i \in placed :
                  Cardinality(LeavesOf(tree, results[i], folder(i)))
                     = Cardinality({ j \in placed : results[j] = results[i] })

\* A tree was built from a bucket holding two results of one user and folder
\* and so has one user node with one folder node with two leaves.
C24_Witness ==
    /\ SearchTreeBuilt
    /\ Len(reader.ret.results) = 2
    /\ reader.ret.tree # NoTree
    /\ Len(reader.ret.tree.children) = 1
    /\ Len(reader.ret.tree.children[1].children) = 1
    /\ Len(reader.ret.tree.children[1].children[1].children) = 2

\* C25: every File leaf of a search tree carries the size, the speed, the
\* queue position and the attribute summary of a result of the bucket it was
\* built from.
C25_LeafCarriesResult ==
    (SearchTreeBuilt /\ reader.ret.tree # NoTree) =>
        \A at \in Leaves(reader.ret.tree) :
            LET leaf == reader.ret.tree.children[at[1]].children[at[2]].children[at[3]]
            IN  /\ "inqueue" \in DOMAIN leaf
                /\ \E i \in 1..Len(reader.ret.results) :
                      LET entry == reader.ret.results[i]
                      IN  /\ leaf.path = entry.path /\ leaf.user = entry.user
                          /\ leaf.size = entry.size /\ leaf.speed = entry.speed
                          /\ leaf.inqueue = entry.inqueue
                          /\ leaf.attributes = entry.attributes

\* C26: a search response for a token that has no search record changes
\* nothing: the records, the buckets and the term index stay as they are and
\* the token gets no bucket.
C26_UnknownTokenNoOp ==
    [][ \A token \in 1..MaxRequests, results \in ResultLists :
           (token \notin DOMAIN searches /\ AddSearchResults(token, "alice", results))
           => /\ searches' = searches
              /\ search_results' = search_results
              /\ search_terms' = search_terms
              /\ token \notin DOMAIN search_results' ]_vars

\* A search was removed and has neither record nor bucket: the state a late
\* response for its token arrives in, and the state it leaves.
C26_Witness ==
    \E token \in removed :
        /\ token \notin DOMAIN searches
        /\ token \notin DOMAIN search_results
        /\ ENABLED AddSearchResults(token, "alice", << File1 >>)

\* C27: ensure_search with a term that is empty once trimmed returns None and
\* changes nothing: no pending request is allocated, no work is queued for the
\* owner thread and the registry is as it was.
C27_EmptyTermRejected ==
    [][ \A c \in Callers, term \in Terms \cup { <<>>, << " " >> } :
           ((\A i \in 1..Len(term) : term[i] = " ") /\ EnsureSearch(c, term))
           => /\ caller'[c].pc = "idle"
              /\ caller'[c].ret = None
              /\ UNCHANGED << registry, pending_requests, pending_request_id,
                              main_queue, engine_token >> ]_vars

\* A caller's ensure_search of a blank term has returned None with no request
\* ever allocated.
C27_Witness ==
    \E c \in Callers :
        /\ caller[c].op = "ensure_search"
        /\ caller[c].pc = "idle"
        /\ caller[c].key = <<>>
        /\ caller[c].ret = None
        /\ pending_request_id = 0
        /\ main_queue = <<>>

\* C28: with no search removed, the ensure_search calls for one normalized
\* term, however they overlap, start at most one engine search, so that the
\* term has at most one live record, and all return the same token.
C28_ConcurrentCallsOneSearch ==
    \A key \in { casefold(strip(term)) : term \in Terms } :
        /\ Cardinality({ token \in DOMAIN searches :
                           casefold(searches[token].term) = key }) <= 1
        /\ Cardinality({ p \in returned : p[1] = key }) <= 1

\* Caller c has reset the key of its request_user_tree call to loading and has
\* not yet returned from its first wait, and the event of the key is set: a
\* notification for the key has run since the reset of c.
Notified(c) ==
    LET key == user_browse_key(caller[c].username, caller[c].local)
    IN  /\ caller[c].pc \in {"browse_invoke", "browse_wait"}
        /\ user_browse_events[key]

\* C29: a notification for a key that runs after a caller's request_user_tree
\* has reset the key is not lost to that caller, whatever other callers do:
\* until the caller has returned from its first wait the event stays set and
\* the status stays the one a notification wrote, so the wait is satisfied by
\* the event and the caller reads that status.
C29_NotificationKept ==
    [][ \A c \in Callers :
           (Notified(c) /\ caller'[c].pc \in {"browse_invoke", "browse_wait"})
           => /\ Notified(c)'
              /\ user_browse_status'[user_browse_key(caller[c].username,
                                                     caller[c].local)]
                    \in {"ready", "not_found"} ]_vars

\* The step is the reset of the key by a request_user_tree call.
ResetOf(key) ==
    \E c \in Callers :
        /\ caller[c].pc = "idle"
        /\ caller'[c].pc = "browse_invoke"
        /\ user_browse_key(caller'[c].username, caller'[c].local) = key

\* C30: the browse status of a key goes from absent to loading to ready or
\* not_found: the key gets a status only by a request_user_tree call for it,
\* which makes it loading; it becomes loading by no other step; and it becomes
\* ready or not_found only by a notification, and only once it has a status.
C30_StatusLifecycle ==
    [][ \A key \in {"bob", "eve", ""} :
           LET had == key \in DOMAIN user_browse_status
               has == key \in DOMAIN user_browse_status'
               changed == has /\ (had => user_browse_status'[key]
                                             # user_browse_status[key])
           IN  /\ had => has
               /\ (~had /\ has) => (ResetOf(key) /\ user_browse_status'[key] = "loading")
               /\ (changed /\ user_browse_status'[key] = "loading") => ResetOf(key)
               /\ (changed /\ user_browse_status'[key] \in {"ready", "not_found"})
                     => (had /\ caller' = caller) ]_vars

\* Caller c, the only caller there has been, returns in this step from a
\* request_user_tree call it began after the listing of its key had arrived:
\* the key is loading again, which is the reset of this call, while the engine
\* holds the listing.
ReturnsAfterListing(c) ==
    LET key == user_browse_key(caller[c].username, caller[c].local)
    IN  /\ LeavesWait(c, "tree_wait")
        /\ \A d \in Callers \ {c} : caller[d] = Idle
        /\ key \in DOMAIN browse_users /\ browse_users[key] = "loaded"
        /\ user_browse_status[key] = "loading"

\* The status of a returned call is one of the four and is ready exactly when
\* the call returns a tree.
StatusAndTree(ret) ==
    /\ ret.status \in Statuses
    /\ ret.status = "ready" <=> ("tree" \in DOMAIN ret /\ ret.tree # NoTree)

\* C31 as stated: request_user_tree returns one of loading, ready, not_found
\* and error, returns ready exactly when it returns a tree, and returns ready
\* for a key whose listing had arrived before the call.
C31_ReadyAfterListing ==
    [][ \A c \in Callers :
           /\ (caller'[c].pc = "idle" /\ caller'[c] # caller[c]
                  /\ caller'[c].op = "request_user_tree")
              => StatusAndTree(caller'[c].ret)
           /\ ReturnsAfterListing(c) => caller'[c].ret.status = "ready" ]_vars

\* C31: request_user_tree returns one of loading, ready, not_found and error
\* and returns ready exactly when it returns a tree; for a key whose listing
\* had arrived before the call it returns ready when the owner thread has
\* answered the tree request by the time the wait for it ends, and loading
\* with no tree when it has not.
C31_ReadyWhenAnswered ==
    [][ \A c \in Callers :
           /\ (caller'[c].pc = "idle" /\ caller'[c] # caller[c]
                  /\ caller'[c].op = "request_user_tree")
              => StatusAndTree(caller'[c].ret)
           /\ ReturnsAfterListing(c)
              => IF pending_requests[caller[c].request_id].event
                    THEN caller'[c].ret.status = "ready"
                    ELSE caller'[c].ret = [status |-> "loading", tree |-> NoTree]
       ]_vars

\* A caller calling alone has asked again for a key whose listing had arrived
\* and has been given the tree.
C31_Witness ==
    \E c \in Callers :
        /\ caller[c].pc = "idle"
        /\ caller[c].op = "request_user_tree"
        /\ caller[c].ret.status = "ready"
        /\ caller[c].ret.tree # NoTree
        /\ \A d \in Callers \ {c} : caller[d] = Idle
        /\ user_browse_status["bob"] = "loading"
        /\ browse_users["bob"] = "loaded"

\* In this step the owner thread runs _start_search_main_thread for a request
\* whose caller has timed out and removed its pending entry.
LateCompletion ==
    /\ main_queue # <<>>
    /\ main_queue' = Tail(main_queue)
    /\ Head(main_queue).fn = "_start_search_main_thread"
    /\ Head(main_queue).request_id \notin DOMAIN pending_requests

\* In this step the bridged search of caller c times out: ensure_search
\* returns None.
TimesOut(c) ==
    /\ LeavesWait(c, "search_wait")
    /\ ~pending_requests[caller[c].request_id].event

\* C32 as stated: an ensure_search whose bridged search times out returns None
\* and leaves the term index, the search records and the buckets unchanged, and
\* the later completion of that request on the owner thread changes none of
\* them either.
C32_TimeoutRegistersNothing ==
    [][ /\ \A c \in Callers :
              TimesOut(c) => (caller'[c].pc = "idle" /\ caller'[c].ret = None
                                  /\ UNCHANGED registry)
        /\ LateCompletion => UNCHANGED registry ]_vars

\* C32: an ensure_search whose bridged search times out returns None and leaves
\* the term index, the search records and the buckets unchanged; the later
\* completion of that request on the owner thread writes into no pending entry,
\* and the search the engine started in it is registered with its record, an
\* empty bucket and the index entry of its term.
C32_TimeoutThenRegistered ==
    [][ /\ \A c \in Callers :
              TimesOut(c) => (caller'[c].pc = "idle" /\ caller'[c].ret = None
                                  /\ UNCHANGED registry)
        /\ LateCompletion
           => /\ pending_requests' = pending_requests
              /\ engine_token' \in DOMAIN searches' \ DOMAIN searches
              /\ searches'[engine_token'].term = Head(main_queue).term
              /\ search_results'[engine_token'] = <<>>
              /\ search_terms'[casefold(Head(main_queue).term)] = engine_token' ]_vars

\* The one caller there has been was answered None by a search that timed
\* out, and the completion that came later has put the term into the index.
C32_Witness ==
    \E c \in Callers :
        /\ caller[c].pc = "idle"
        /\ caller[c].op = "ensure_search"
        /\ caller[c].ret = None
        /\ caller[c].key \in DOMAIN search_terms
        /\ search_terms[caller[c].key] \in DOMAIN searches
        /\ \A d \in Callers \ {c} : caller[d] = Idle
        /\ main_queue = <<>>

\* C39: the tokens that have a search record are the tokens that have a
\* result bucket, and every token in the term index has a search record.
C39_RecordsBucketsIndex ==
    /\ DOMAIN searches = DOMAIN search_results
    /\ \A key \in DOMAIN search_terms : search_terms[key] \in DOMAIN searches

\* A search was removed while its caller was about to register it, and the
\* registration has made its record and bucket again and put it into the index.
C39_Witness ==
    \E token \in removed :
        /\ token \in DOMAIN searches
        /\ token \in DOMAIN search_results
        /\ \E key \in DOMAIN search_terms : search_terms[key] = token

UserTreeBuilt ==
    /\ reader.ret # <<>>
    /\ reader.ret.op = "build_user_tree"
    /\ reader.ret.tree # NoTree

\* The File leaves at and below the node, each with the names of the Dir nodes
\* above it and its place among the children of each of them.
RECURSIVE FileLeaves(_, _, _)
FileLeaves(node, names, places) ==
    UNION { IF node.children[i].type = "dir"
               THEN FileLeaves(node.children[i],
                               Append(names, node.children[i].name),
                               Append(places, i))
               ELSE { [names |-> names, places |-> Append(places, i),
                       leaf |-> node.children[i]] } :
            i \in 1..Len(node.children) }

\* The folders of a listing, those of the public collection first, each with
\* the names of the Dir nodes it is displayed under: the parts of its path
\* that are not empty, without a leading marker part when that is hidden.
ListedFolders(browsed_user, hide_at_root) ==
    LET RECURSIVE cut(_, _)
        cut(rest, part) ==
            IF rest = <<>> THEN << part >>
            ELSE IF Head(rest) = "\\" THEN << part >> \o cut(Tail(rest), <<>>)
            ELSE cut(Tail(rest), Append(part, Head(rest)))
        parts(path) ==
            LET all == cut(path, <<>>)
                kept == IF hide_at_root /\ all[1] # <<>> /\ all[1][1] = "@"
                           THEN Tail(all) ELSE all
            IN  SelectSeq(kept, LAMBDA part : part # <<>>)
        folders == browsed_user.public_folders \o browsed_user.private_folders
    IN  [i \in 1..Len(folders) |->
            [folder_path |-> folders[i].folder_path,
             names |-> parts(folders[i].folder_path),
             files |-> folders[i].files]]

\* C33: the tree of a browsed user holds every file of every folder of the
\* public and of the private collection as one File leaf under the Dir nodes
\* of its folder, and no other leaf.
C33_ListingsMerged ==
    UserTreeBuilt =>
        LET listed == ListedFolders(reader.ret.browsed_user, reader.ret.hide_at_root)
            leaves == FileLeaves(reader.ret.tree, <<>>, <<>>)
            listed_files == { at \in (1..Len(listed)) \X (1..2) :
                          at[2] <= Len(listed[at[1]].files) }
        IN  /\ Cardinality(leaves) = Cardinality(listed_files)
            /\ \A at \in listed_files :
                  Cardinality({ l \in leaves :
                                  /\ l.names = listed[at[1]].names
                                  /\ l.leaf.name = listed[at[1]].files[at[2]].name
                                  /\ l.leaf.size = listed[at[1]].files[at[2]].size })
                     = Cardinality({ to \in listed_files :
                                  /\ listed[to[1]].names = listed[at[1]].names
                                  /\ listed[to[1]].files[to[2]]
                                        = listed[at[1]].files[at[2]] })

\* No node at or below the node has two Dir children of one name.
RECURSIVE OneDirPerName(_)
OneDirPerName(node) ==
    \A i \in 1..Len(node.children) :
        node.children[i].type = "dir" =>
            /\ OneDirPerName(node.children[i])
            /\ \A j \in 1..Len(node.children) :
                  (node.children[j].type = "dir"
                      /\ node.children[j].name = node.children[i].name) => j = i

\* The names lead from the node down through Dir nodes.
RECURSIVE Leads(_, _)
Leads(node, names) ==
    names = <<>>
    \/ \E i \in 1..Len(node.children) :
          /\ node.children[i].type = "dir"
          /\ node.children[i].name = names[1]
          /\ Leads(node.children[i], Tail(names))

\* C34: the tree built from a folder map has at most one Dir node for each
\* path prefix: no node has two Dir children of one name, and the path of every
\* folder leads from the root through these nodes, so that folders with a
\* common prefix have its nodes in common.
C34_OneDirPerPrefix ==
    UserTreeBuilt =>
        /\ OneDirPerName(reader.ret.tree)
        /\ LET listed == ListedFolders(reader.ret.browsed_user,
                                       reader.ret.hide_at_root)
           IN  \A i \in 1..Len(listed) : Leads(reader.ret.tree, listed[i].names)

\* A tree built from a folder and its subfolder: the one Dir node of the
\* folder holds the Dir node of the subfolder beside the folder's own file.
C34_Witness ==
    /\ UserTreeBuilt
    /\ reader.ret.hide_at_root
    /\ Len(reader.ret.tree.children) = 2
    /\ reader.ret.tree.children[1].name = << "m" >>
    /\ Len(reader.ret.tree.children[1].children) = 2
    /\ reader.ret.tree.children[1].children[1].name = << "s" >>
    /\ reader.ret.tree.children[1].children[1].type = "dir"
    /\ reader.ret.tree.children[1].children[2].type = "file"

\* C35: in a tree built with hide_at_root every File leaf has the path of a
\* folder of the listing as the listing gives it, marker segment included, then
\* the separator and the leaf's name, that folder being displayed where the
\* leaf is and holding a file of that name.
C35_LeafPathOriginal ==
    (UserTreeBuilt /\ reader.ret.hide_at_root) =>
        LET listed == ListedFolders(reader.ret.browsed_user, TRUE)
        IN  \A l \in FileLeaves(reader.ret.tree, <<>>, <<>>) :
                \E i \in 1..Len(listed) :
                    /\ listed[i].names = l.names
                    /\ \E j \in 1..Len(listed[i].files) :
                          listed[i].files[j].name = l.leaf.name
                    /\ l.leaf.path =
                          IF listed[i].folder_path = <<>> THEN l.leaf.name
                          ELSE listed[i].folder_path \o << "\\" >> \o l.leaf.name

\* A leaf under the Dir node m of a tree built with hide_at_root has the path
\* @@x\m\a: the marker segment is not displayed and is in the path.
C35_Witness ==
    /\ UserTreeBuilt
    /\ reader.ret.hide_at_root
    /\ \E l \in FileLeaves(reader.ret.tree, <<>>, <<>>) :
          /\ l.names = << << "m" >> >>
          /\ l.leaf.path = << "@", "@", "x", "\\", "m", "\\", "a" >>

\* GET /files/tree has answered.
FilesTreeBuilt ==
    /\ reader.ret # <<>>
    /\ reader.ret.op = "_build_files_tree"

\* The text holds the search: lowercased and without its separators and
\* blanks, it has the search text, taken the same way, as a part.
Found(search_text, text) ==
    LET bare(s) == SelectSeq(casefold(s), LAMBDA ch :
                       ch \notin { " ", "(", ")", ".", "/", "@", "\\", "_" })
    IN  \E i \in 0..(Len(bare(text)) - Len(bare(search_text))) :
           SubSeq(bare(text), i + 1, i + Len(bare(search_text)))
              = bare(search_text)

\* The directory read at the path has an entry to display: a file that can be
\* read, that no share filter matches and whose path holds the search, or a
\* directory that no share filter matches and that has such an entry itself or
\* holds the search in its name.
RECURSIVE HasEntries(_, _, _)
HasEntries(folder, folder_path, search_text) ==
    /\ folder.error # "scandir"
    /\ \E i \in 1..Len(folder.children) :
          LET entry == folder.children[i]
              path == folder_path \o << "/" >> \o entry.name
          IN  /\ ~entry.filtered
              /\ \/ entry.type = "file" /\ entry.error = "none"
                       /\ Found(search_text, path)
                 \/ entry.type = "dir"
                       /\ \/ Found(search_text, entry.name)
                          \/ HasEntries(entry, path, search_text)

\* The node displays the directory read at the path: of its entries it has the
\* files and the directories that are to be displayed, each once and displayed
\* in turn, and no others; an entry that cannot be read is left out alone.
RECURSIVE Displays(_, _, _, _)
Displays(node, folder, folder_path, search_text) ==
    LET entries == IF folder.error = "scandir" THEN <<>> ELSE folder.children
        nodes(entry) == { j \in 1..Len(node.children) :
                             /\ node.children[j].name = entry.name
                             /\ node.children[j].type = entry.type }
    IN  /\ \A j \in 1..Len(node.children) :
              \E i \in 1..Len(entries) : j \in nodes(entries[i])
        /\ \A i \in 1..Len(entries) :
              LET entry == entries[i]
                  path == folder_path \o << "/" >> \o entry.name
                  kept == /\ ~entry.filtered
                          /\ \/ entry.type = "file" /\ entry.error = "none"
                                   /\ Found(search_text, path)
                             \/ entry.type = "dir"
                                   /\ \/ Found(search_text, entry.name)
                                      \/ HasEntries(entry, path, search_text)
              IN  /\ Cardinality(nodes(entry)) = IF kept THEN 1 ELSE 0
                  /\ \A j \in nodes(entry) :
                        entry.type = "dir" =>
                           Displays(node.children[j], entry, path, search_text)

\* The tree displays the download folder and the shares it was built from:
\* each of them that is a directory, and has an entry to display or holds the
\* search in its label, under its label.
DisplaysAll(ret) ==
    LET labelled(node, label) ==
            { j \in 1..Len(node.children) : node.children[j].name = label }
        shown_at(node, label, root) ==
            LET kept == /\ root.type = "dir"
                        /\ \/ HasEntries(root, root.name, ret.search_text)
                           \/ Found(ret.search_text, label)
            IN  /\ Cardinality(labelled(node, label)) = IF kept THEN 1 ELSE 0
                /\ \A j \in labelled(node, label) :
                      Displays(node.children[j], root, root.name,
                               ret.search_text)
        shares == labelled(ret.tree, << "S", "h", "a", "r", "e", "d" >>)
    IN  /\ shown_at(ret.tree, << "D", "o", "w", "n", "l", "o", "a", "d", "s" >>,
                    ret.download_dir)
        /\ \A i \in 1..Len(ret.shared) :
              IF shares = {}
                 THEN shown_at([children |-> <<>>], ret.shared[i].name,
                               ret.shared[i].folder)
                 ELSE \A j \in shares :
                         shown_at(ret.tree.children[j], ret.shared[i].name,
                                  ret.shared[i].folder)

\* Every entry at or below the directory can be read.
RECURSIVE Readable(_)
Readable(folder) ==
    folder.type = "dir" =>
        /\ folder.error = "none"
        /\ \A i \in 1..Len(folder.children) :
              /\ folder.children[i].error = "none"
              /\ Readable(folder.children[i])

\* The download folder and the shares of the answer can all be read.
AllReadable(ret) ==
    /\ Readable(ret.download_dir)
    /\ \A i \in 1..Len(ret.shared) : Readable(ret.shared[i].folder)

\* C36: the tree of the files on disk leaves a directory out exactly when,
\* after the share filters and the search, it has no entry to display and its
\* name does not hold the search, so that without a search text it leaves no
\* directory out; and the tree built from a folder map has the Dir nodes of
\* every folder, also of one without files.
C36_PrunedWhenEmptyAndUnmatched ==
    /\ (FilesTreeBuilt /\ AllReadable(reader.ret)) => DisplaysAll(reader.ret)
    /\ UserTreeBuilt =>
          LET listed == ListedFolders(reader.ret.browsed_user,
                                      reader.ret.hide_at_root)
          IN  \A i \in 1..Len(listed) :
                 listed[i].files = <<>> => Leads(reader.ret.tree, listed[i].names)

\* A tree built for the search "Z " from a share that can be read: of its
\* directories without entries it has Z.d, whose name holds the search, and
\* not e, whose name does not.
C36_Witness ==
    /\ FilesTreeBuilt
    /\ AllReadable(reader.ret)
    /\ reader.ret.search_text = << "Z", " " >>
    /\ Len(reader.ret.tree.children) = 1
    /\ LET share_node == reader.ret.tree.children[1].children[1]
       IN  /\ \E j \in 1..Len(share_node.children) :
                 /\ share_node.children[j].name = << "Z", ".", "d" >>
                 /\ share_node.children[j].children = <<>>
           /\ \A j \in 1..Len(share_node.children) :
                 share_node.children[j].name # << "e" >>

\* C37: an entry of a directory that cannot be read is left out of the tree of
\* the files on disk alone: the other entries of its directory and the rest of
\* the tree are displayed as they are without it.
C37_ErrorSkipsOneEntry ==
    (FilesTreeBuilt /\ ~AllReadable(reader.ret)) => DisplaysAll(reader.ret)

\* In this step a file request is answered: the response is that of a file
\* endpoint, and the response, the files or the override table change while
\* the transfers and the callbacks handed to the owner thread stay as they are.
FileRequestAnswered ==
    /\ reader'.ret # <<>>
    /\ reader'.ret.op \in {"rename_file", "delete_file"}
    /\ transfers' = transfers
    /\ main_queue' = main_queue
    /\ << reader, files, download_path_overrides >>
          # << reader', files', download_path_overrides' >>

\* C38: a file request changes the override table only when its operation on
\* the file system has succeeded: a rename that is answered 204 has moved one
\* file to a new path and, when it names a download, has recorded that path as
\* the download's override; a delete that is answered 204 has removed one file
\* and, when it names a download, has dropped the download's override; and a
\* request answered otherwise has changed neither the table nor the files.
C38_OverridesFollowFileSystem ==
    [][FileRequestAnswered =>
          LET ret == reader'.ret
              key == transfers[ret.named].username
                        \o transfers[ret.named].virtual_path
              recorded(new_path) ==
                  [k \in DOMAIN download_path_overrides \cup {key} |->
                      IF k = key THEN new_path ELSE download_path_overrides[k]]
              dropped ==
                  [k \in DOMAIN download_path_overrides \ {key} |->
                      download_path_overrides[k]]
          IN  IF ret.status # 204
                 THEN UNCHANGED << download_path_overrides, files >>
              ELSE IF ret.op = "rename_file"
                 THEN \E path \in files, new_path \in files' \ files :
                         /\ files' = (files \ {path}) \cup {new_path}
                         /\ download_path_overrides' =
                               IF ret.named = 0 THEN download_path_overrides
                               ELSE recorded(new_path)
              ELSE \E path \in files :
                      /\ files' = files \ {path}
                      /\ download_path_overrides' =
                            IF ret.named = 0 THEN download_path_overrides
                            ELSE dropped]_vars

\* A rename naming the first download has been answered 204: the file is at
\* its new path and the override of the download is that path.
C38_Witness ==
    /\ reader.ret # <<>>
    /\ reader.ret.op = "rename_file"
    /\ reader.ret.status = 204
    /\ reader.ret.named = 1
    /\ "dl/renamed.mp3" \in files
    /\ "dl/a.mp3" \notin files
    /\ LET key == transfers[1].username \o transfers[1].virtual_path
       IN  /\ key \in DOMAIN download_path_overrides
           /\ download_path_overrides[key] = "dl/renamed.mp3"

====
